---- MODULE Spec2Model ----
(***************************************************************************)
(* RepoBrief: the credit ledger, the commit puller, the embedding client   *)
(* and the question-answering routes, as state machines.                   *)
(*                                                                         *)
(* Every await of a handler that touches the relational store is one       *)
(* action, so that two requests interleave exactly where the code can be   *)
(* suspended.  Each subsystem has its own specification (SpecCredit,       *)
(* SpecPull, ...); the variables of the other subsystems are then frozen   *)
(* at their idle values.                                                   *)
(***************************************************************************)
EXTENDS Integers, Sequences, FiniteSets, TLC

VARIABLES
    credits,    \* User.credits of the one user of the credit model
    credits0,   \* the balance the user started with (history variable)
    ledger,     \* StripeTransaction rows of the user, in insertion order
    projects,   \* number of Project rows created by createProject
    cproc,      \* per request slot: position and locals of the credit handler
    nops,       \* number of credit requests started so far
    lastCall,   \* the project-router call that ended last, and how (history)
    commitTable,\* Commit rows (unique index on commitHash)
    repo,       \* per project: the commit list the hosting API returns
    pull,       \* per request slot: position and locals of pullCommit
    lastPull,   \* the pull that completed last, with the table it left (history)
    npulls,     \* number of pullCommit calls started so far
    emb,        \* per invocation: position and locals of generateEmbedding
    store,      \* SourceCodeEmbedding rows, in row order
    qa,         \* position and locals of the answering request in flight
    prevTop,    \* question and topFiles of the keyword request before (history)
    nqa,        \* number of answering requests started so far
    reembed,    \* position and response of the re-embed request
    sum,        \* the invocation of summarizeCommit that is followed
    ingest,     \* position and locals of the background task of createProject
    fc,         \* the repository tree and the getFileCount call of each path
    members,    \* UserToProject rows, in insertion order
    join,       \* per request slot: position and response of the join request
    njoins      \* number of join requests started so far

creditVars == <<credits, credits0, ledger, projects, cproc, nops, lastCall>>
pullVars == <<commitTable, repo, pull, lastPull, npulls>>
embedVars == <<emb, sum>>
qaVars == <<store, qa, prevTop, nqa>>
reembedVars == <<reembed, ingest>>
countVars == <<fc>>
joinVars == <<members, join, njoins>>

vars == <<credits, credits0, ledger, projects, cproc, nops, lastCall,
          commitTable, repo, pull, lastPull, npulls, emb, sum,
          store, qa, prevTop, nqa, reembed, ingest, fc, members, join, njoins>>

\* what the handlers of one subsystem leave alone
nonCreditVars == <<pullVars, embedVars, qaVars, reembedVars, countVars, joinVars>>
nonPullVars == <<creditVars, embedVars, qaVars, reembedVars, countVars, joinVars>>
nonEmbedVars == <<creditVars, pullVars, qaVars, reembedVars, countVars, joinVars>>
nonQaVars == <<creditVars, pullVars, embedVars, reembedVars, countVars, joinVars>>
nonStoreVars == <<creditVars, pullVars, embedVars, countVars, joinVars>>
nonCountVars == <<creditVars, pullVars, embedVars, qaVars, reembedVars, joinVars>>
nonJoinVars == <<creditVars, pullVars, embedVars, qaVars, reembedVars, countVars>>

(***************************************************************************)
(* Bounds of the model.                                                    *)
(***************************************************************************)
MaxCreditOps == 3       \* credit requests started in one behaviour
MaxPulls == 3           \* pullCommit calls started, one after the other
MaxConcPulls == 2       \* pullCommit calls started, when they may overlap
MaxQa == 2              \* answering requests started, one after the other
MaxFiles == 12          \* rows of SourceCodeEmbedding
MaxJoins == 3           \* join requests started in one behaviour
MaxReembeds == 2        \* re-embed requests, one after the other
Procs == {1, 2}         \* request slots that may be in flight at once

(***************************************************************************)
(* Small helpers.                                                          *)
(***************************************************************************)
Max(a, b) == IF a >= b THEN a ELSE b

RECURSIVE SumDeltas(_)
SumDeltas(s) == IF s = <<>> THEN 0 ELSE s[1].credits + SumDeltas(Tail(s))

(***************************************************************************)
(*                         CREDIT / BILLING GATE                           *)
(***************************************************************************)
MinCredits == 10        \* Math.max(10, totalFiles)
DefaultCredits == 150   \* currentUser?.credits || 150

InitCredits == {0, 10, 25}      \* balances the user may start with
DeductAmounts == {5, 10}        \* creditAmount of deductCredits
TotalFiles == {3, 12}           \* files counted in the repository tree
Events == {"e1", "e2"}          \* checkout.session.completed events
UpdateTargets == {30, 160}      \* "credits" field of POST /api/update-credits

\* session.metadata.creditAmount of a checkout event
EventCredits(e) == IF e = "e1" THEN 10 ELSE 50

\* checkCredits of githubLoader: one credit per file, minimum 10; 0 when the
\* count itself throws
CheckCredits(totalFiles, listingOk) ==
    IF listingOk THEN Max(MinCredits, totalFiles) ELSE 0

\* counted and files keep, for a request that is followed, the files its
\* count found (history)
CIdle(res) ==
    [pc |-> "idle", amt |-> 0, seen |-> 0, ev |-> "none", res |-> res,
     counted |-> FALSE, files |-> 0]

CBusy(pc, amt, seen, ev) ==
    [pc |-> pc, amt |-> amt, seen |-> seen, ev |-> ev, res |-> "running",
     counted |-> FALSE, files |-> 0]

\* the end of a deduction or of createProject: the slot keeps the amount the
\* request worked with (history)
CEnd(p, res) == [CIdle(res) EXCEPT !.amt = cproc[p].amt]

CanStart(p) == cproc[p].pc = "idle" /\ nops < MaxCreditOps

NoCall == [op |-> "none", failure |-> FALSE, raised |-> FALSE]
\* how a call of the project router ended: failure tells whether something
\* failed inside it, raised whether it ended by throwing to its caller
Called(op, failure, raised) == [op |-> op, failure |-> failure, raised |-> raised]

\* ---- deductCredits (lib/stripe.ts) ----
\* findUnique, then the balance check; a failed read or too small a balance
\* throws 'Failed to deduct credits'
DeductCheck(p, amount, dbOk) ==
    /\ CanStart(p)
    /\ nops' = nops + 1
    /\ cproc' = [cproc EXCEPT ![p] =
                    IF dbOk /\ ~(credits < amount)
                    THEN CBusy("d_update", amount, credits, "none")
                    ELSE CIdle("threw")]
    /\ UNCHANGED <<credits, credits0, ledger, projects, lastCall, nonCreditVars>>

\* user.update({credits: {decrement}}): the ledger insert is commented out
DeductUpdate(p, dbOk) ==
    /\ cproc[p].pc = "d_update"
    /\ credits' = IF dbOk THEN credits - cproc[p].amt ELSE credits
    /\ cproc' = [cproc EXCEPT ![p] = CEnd(p, IF dbOk THEN "ok" ELSE "threw")]
    /\ UNCHANGED <<credits0, ledger, projects, nops, lastCall, nonCreditVars>>

\* ---- createProject (project router) ----
\* checkCredits, findUnique, then the balance check
CreateCheck(p, totalFiles, listingOk, dbOk, track) ==
    /\ CanStart(p)
    /\ nops' = nops + 1
    /\ LET fileCount == CheckCredits(totalFiles, listingOk) IN
       cproc' = [cproc EXCEPT ![p] =
                    IF dbOk /\ ~(credits < fileCount)
                    THEN [CBusy("c_create", fileCount, credits, "none")
                            EXCEPT !.counted = track /\ listingOk,
                                   !.files = IF track /\ listingOk
                                             THEN totalFiles ELSE 0]
                    ELSE CIdle("threw")]
    /\ lastCall' = IF track /\ cproc'[p].pc = "idle"
                   THEN Called("createProject", TRUE, cproc'[p].res = "threw")
                   ELSE lastCall
    /\ UNCHANGED <<credits, credits0, ledger, projects, nonCreditVars>>

\* project.create
CreateProjectRow(p, dbOk, track) ==
    /\ cproc[p].pc = "c_create"
    /\ projects' = IF dbOk THEN projects + 1 ELSE projects
    /\ cproc' = [cproc EXCEPT ![p] =
                    IF dbOk THEN [cproc[p] EXCEPT !.pc = "c_deduct"]
                    ELSE CEnd(p, "threw")]
    /\ lastCall' = IF track /\ cproc'[p].pc = "idle"
                   THEN Called("createProject", TRUE, cproc'[p].res = "threw")
                   ELSE lastCall
    /\ UNCHANGED <<credits, credits0, ledger, nops, nonCreditVars>>

\* user.update({credits: {decrement: fileCount}})
CreateDeduct(p, dbOk, track) ==
    /\ cproc[p].pc = "c_deduct"
    /\ credits' = IF dbOk THEN credits - cproc[p].amt ELSE credits
    /\ cproc' = [cproc EXCEPT ![p] =
                    IF dbOk THEN [cproc[p] EXCEPT !.pc = "c_ledger"]
                    ELSE CEnd(p, "threw")]
    /\ lastCall' = IF track /\ cproc'[p].pc = "idle"
                   THEN Called("createProject", TRUE, cproc'[p].res = "threw")
                   ELSE lastCall
    /\ UNCHANGED <<credits0, ledger, projects, nops, nonCreditVars>>

\* stripeTransaction.create({credits: -fileCount}); then the project is returned
CreateLedger(p, dbOk, track) ==
    /\ cproc[p].pc = "c_ledger"
    /\ ledger' = IF dbOk
                 THEN Append(ledger, [credits |-> -cproc[p].amt, src |-> "project"])
                 ELSE ledger
    /\ cproc' = [cproc EXCEPT ![p] = CEnd(p, IF dbOk THEN "ok" ELSE "threw")]
    /\ lastCall' = IF track
                   THEN Called("createProject", ~dbOk, cproc'[p].res = "threw")
                   ELSE lastCall
    /\ UNCHANGED <<credits, credits0, projects, nops, nonCreditVars>>

\* ---- checkCredits procedure (project router) ----
\* the file count, then findUnique; any error is rethrown
CheckCreditsProc(p, dbOk, track) ==
    /\ CanStart(p)
    /\ nops' = nops + 1
    /\ cproc' = [cproc EXCEPT ![p] = CIdle(IF dbOk THEN "ok" ELSE "threw")]
    /\ lastCall' = IF track
                   THEN Called("checkCredits", ~dbOk, cproc'[p].res = "threw")
                   ELSE lastCall
    /\ UNCHANGED <<credits, credits0, ledger, projects, nonCreditVars>>

\* ---- Stripe webhook, checkout.session.completed ----
\* findUnique; newCredits = currentCredits + creditAmount
WebhookRead(p, e, dbOk) ==
    /\ CanStart(p)
    /\ nops' = nops + 1
    /\ cproc' = [cproc EXCEPT ![p] =
                    IF dbOk
                    THEN CBusy("w_tx", EventCredits(e), credits, e)
                    ELSE CIdle("error")]
    /\ UNCHANGED <<credits, credits0, ledger, projects, lastCall, nonCreditVars>>

\* $transaction([user.update({credits: newCredits}), stripeTransaction.create])
WebhookTx(p, dbOk) ==
    /\ cproc[p].pc = "w_tx"
    /\ credits' = IF dbOk THEN cproc[p].seen + cproc[p].amt ELSE credits
    /\ ledger' = IF dbOk
                 THEN Append(ledger, [credits |-> cproc[p].amt, src |-> cproc[p].ev])
                 ELSE ledger
    /\ cproc' = [cproc EXCEPT ![p] = CIdle(IF dbOk THEN "ok" ELSE "error")]
    /\ UNCHANGED <<credits0, projects, nops, lastCall, nonCreditVars>>

\* ---- POST /api/update-credits ----
\* currentUser?.credits || 150
CurrentOrDefault(c) == IF c = 0 THEN DefaultCredits ELSE c

\* the billing page after the success redirect of a checkout: the "credits"
\* field it posts is (user.publicMetadata.credits || 150) + the credits bought
RedirectTarget(metadataCredits, e) == CurrentOrDefault(metadataCredits) + EventCredits(e)

\* findUnique; a target below the current balance is answered 400
UpdateRead(p, target, dbOk) ==
    /\ CanStart(p)
    /\ nops' = nops + 1
    /\ LET current == CurrentOrDefault(credits) IN
       cproc' = [cproc EXCEPT ![p] =
                    IF dbOk /\ ~(target < current)
                    THEN CBusy("u_update", target, current, "none")
                    ELSE CIdle("error")]
    /\ UNCHANGED <<credits, credits0, ledger, projects, lastCall, nonCreditVars>>

\* user.update({credits})
UpdateSet(p, dbOk) ==
    /\ cproc[p].pc = "u_update"
    /\ credits' = IF dbOk THEN cproc[p].amt ELSE credits
    /\ cproc' = [cproc EXCEPT ![p] =
                    IF dbOk THEN [cproc[p] EXCEPT !.pc = "u_ledger"]
                    ELSE CIdle("error")]
    /\ UNCHANGED <<credits0, ledger, projects, nops, lastCall, nonCreditVars>>

\* stripeTransaction.create({credits: purchasedCredits})
UpdateLedger(p, dbOk) ==
    /\ cproc[p].pc = "u_ledger"
    /\ ledger' = IF dbOk
                 THEN Append(ledger, [credits |-> cproc[p].amt - cproc[p].seen,
                                      src |-> "update"])
                 ELSE ledger
    /\ cproc' = [cproc EXCEPT ![p] = CIdle(IF dbOk THEN "ok" ELSE "error")]
    /\ UNCHANGED <<credits, credits0, projects, nops, lastCall, nonCreditVars>>

(***************************************************************************)
(*                            COMMIT PULLER                                *)
(***************************************************************************)
MaxRetries == 3         \* MAX_RETRIES of summarizeCommit and aiSummarizeCommit
PerPage == 20           \* per_page of the commit listing

PullProjects == {"A", "B"}
Hashes == {"h1", "h2"}
RepoLists == {<<>>, <<"h1">>, <<"h2">>, <<"h1", "h2">>}
DiffOutcomes == {"ok", "403", "404", "429", "neterr"}
ModelOutcomes == {"ok", "fail"}
AiTexts == {"ai-1", "ai-2"}    \* texts the generative model may answer with

FallbackSummary == "Updated code with various improvements and fixes."
UnreachableSummary == "Code changes made to the repository."
Canned403 == "Updated code in repository. (Note: Detailed summary unavailable due to GitHub access restrictions)"
Canned404 == "New commit added to repository. (Note: Detailed summary unavailable as commit details could not be found)"
SummaryFailed == "[AI summary failed]"
NoPull == [proj |-> "none", snap |-> {}]

CommitMessage(h) == IF h = "h1" THEN "msg-1" ELSE "msg-2"

\* the first n elements of a list
Take(s, n) == IF Len(s) <= n THEN s ELSE SubSeq(s, 1, n)

\* getCommitHashes: the most recent per_page commits
GetCommitHashes(pr) == Take(repo[pr], PerPage)

\* Array.prototype.filter
RECURSIVE FilterSeq(_, _)
FilterSeq(s, keep) ==
    IF s = <<>> THEN <<>>
    ELSE IF s[1] \in keep THEN <<s[1]>> \o FilterSeq(Tail(s), keep)
         ELSE FilterSeq(Tail(s), keep)

\* filterOutUnprocessedCommits: the hashes with no row of THIS project
FilterOutUnprocessedCommits(pr, hashes) ==
    LET processedHashes ==
            {r.commitHash : r \in {x \in commitTable :
                                x.projectId = pr /\ x.commitHash \in hashes}}
    IN  {h \in hashes : h \notin processedHashes}

\* a wait that does not grow
BackoffDelayFlat(retries) == 1000

\* const delay = Math.pow(2, retries) * 1000, in milliseconds
BackoffDelay(retries) == (2 ^ retries) * 1000

\* summarizeCommit of the AI client: up to MAX_RETRIES calls of the model, the
\* text of the first that succeeds, the fixed fallback after the last failure
RECURSIVE SummarizeLoop(_, _, _, _)
SummarizeLoop(retries, outcomes, text, delays) ==
    IF ~(retries < MaxRetries)
    THEN [result |-> UnreachableSummary, calls |-> retries, delays |-> delays,
          threw |-> FALSE]
    ELSE IF outcomes[retries + 1] = "ok"
         THEN [result |-> text, calls |-> retries + 1, delays |-> delays,
               threw |-> FALSE]
         ELSE IF retries + 1 < MaxRetries
              THEN SummarizeLoop(retries + 1, outcomes, text,
                                 Append(delays, BackoffDelay(retries + 1)))
              ELSE [result |-> FallbackSummary, calls |-> retries + 1,
                    delays |-> delays, threw |-> FALSE]

SummarizeCommit(outcomes, text) == SummarizeLoop(0, outcomes, text, <<>>)

SIdle == [pc |-> "idle", outcomes |-> <<>>, text |-> "",
          r |-> [result |-> "", calls |-> 0, delays |-> <<>>, threw |-> FALSE]]
SOff == [SIdle EXCEPT !.pc = "off"]

\* one invocation of summarizeCommit, from its call to its return
SummarizeCommitCall(outcomes, text) ==
    /\ sum.pc = "idle"
    /\ sum' = [pc |-> "done", outcomes |-> outcomes, text |-> text,
               r |-> SummarizeCommit(outcomes, text)]
    /\ UNCHANGED <<emb, nonEmbedVars>>

\* an upsert that writes the failure marker in place of the summary
UpsertMarker(table, pr, h, summary) ==
    {r \in table : r.commitHash # h}
        \cup {[commitHash |-> h, projectId |-> pr,
                message |-> CommitMessage(h), summary |-> SummaryFailed]}

\* prisma.commit.create in place of the upsert
UpsertCreate(table, pr, h, summary) ==
    table \cup {[commitHash |-> h, projectId |-> pr,
                 message |-> CommitMessage(h), summary |-> summary]}

\* prisma.commit.upsert({where: {commitHash}}): the row with this hash is
\* updated in place (its projectId is kept), or a row is created
Upsert(table, pr, h, summary) ==
    IF \E r \in table : r.commitHash = h
    THEN {IF r.commitHash = h
          THEN [r EXCEPT !.summary = summary, !.message = CommitMessage(h)]
          ELSE r : r \in table}
    ELSE table \cup {[commitHash |-> h, projectId |-> pr,
                      message |-> CommitMessage(h), summary |-> summary]}

PIdle(res, err, ret, second, snap, work) ==
    [pc |-> "idle", proj |-> "none", todo |-> <<>>, retries |-> 0, fetches |-> 0,
     lastDiff |-> "none", summary |-> "", res |-> res, err |-> err, ret |-> ret,
     second |-> second, snap |-> snap, work |-> work]

PThrow(p, err) ==
    PIdle("threw", err, {}, pull[p].second, pull[p].snap, pull[p].work)

\* steps 1 and 2: fetchProjectGithubUrl and getCommitHashes; either may throw.
\* track: record whether this pull directly follows a completed pull of the
\* same project (history only)
PullStart(p, pr, projOk, apiOk, track) ==
    /\ pull[p].pc = "idle"
    /\ npulls < (IF track THEN MaxPulls ELSE MaxConcPulls)
    /\ npulls' = npulls + 1
    /\ LET second == track /\ lastPull.proj = pr
           snap == IF second THEN lastPull.snap ELSE {}
       IN pull' = [pull EXCEPT ![p] =
                    IF ~projOk THEN PIdle("threw", "project", {}, FALSE, {}, 0)
                    ELSE IF ~apiOk THEN PIdle("threw", "commits", {}, FALSE, {}, 0)
                    ELSE [PIdle("running", "none", {}, second, snap, 0) EXCEPT
                            !.pc = "filter", !.proj = pr,
                            !.todo = GetCommitHashes(pr)]]
    /\ lastPull' = NoPull
    /\ UNCHANGED <<commitTable, repo, nonPullVars>>

\* step 3: the commits whose hash has no row of this project
PullFilter(p, dbOk) ==
    /\ pull[p].pc = "filter"
    /\ LET hashes == {pull[p].todo[i] : i \in DOMAIN pull[p].todo}
           newHashes == FilterOutUnprocessedCommits(pull[p].proj, hashes)
           newCommits == FilterSeq(pull[p].todo, newHashes)
       IN pull' = [pull EXCEPT ![p] =
                    IF ~dbOk THEN PThrow(p, "filter")
                    ELSE [pull[p] EXCEPT
                            !.todo = newCommits,
                            !.pc = IF newCommits = <<>> THEN "read" ELSE "diff"]]
    /\ UNCHANGED <<commitTable, repo, lastPull, npulls, nonPullVars>>

\* aiSummarizeCommit, one pass of its loop: the diff fetch.  403 and 404 return a
\* canned summary, 429 is retried up to MAX_RETRIES times, any other error
\* returns the empty string
PullFetchDiff(p, d) ==
    /\ pull[p].pc = "diff"
    /\ pull[p].retries < MaxRetries
    /\ LET q == [pull[p] EXCEPT !.fetches = @ + 1, !.lastDiff = d] IN
       pull' = [pull EXCEPT ![p] =
          CASE d = "ok"  -> [q EXCEPT !.pc = "model"]
            [] d = "403" -> [q EXCEPT !.pc = "upsert", !.summary = Canned403]
            [] d = "404" -> [q EXCEPT !.pc = "upsert", !.summary = Canned404]
            [] d = "429" -> IF pull[p].retries + 1 < MaxRetries
                            THEN [q EXCEPT !.retries = @ + 1]
                            ELSE [q EXCEPT !.retries = @ + 1,
                                           !.pc = "upsert", !.summary = ""]
            [] OTHER     -> [q EXCEPT !.pc = "upsert", !.summary = ""]]
    /\ UNCHANGED <<commitTable, repo, lastPull, npulls, nonPullVars>>

\* aiSummarizeCommit: summarizeCommit(diff)
PullModel(p, outcomes, text) ==
    /\ pull[p].pc = "model"
    /\ pull' = [pull EXCEPT ![p] =
                  [pull[p] EXCEPT !.pc = "upsert",
                                  !.summary = SummarizeCommit(outcomes, text).result]]
    /\ UNCHANGED <<commitTable, repo, lastPull, npulls, nonPullVars>>

\* step 4: the upsert of the commit; a store error aborts the pull
PullUpsert(p, dbOk) ==
    /\ pull[p].pc = "upsert"
    /\ commitTable' = IF dbOk
                      THEN Upsert(commitTable, pull[p].proj, Head(pull[p].todo),
                                  pull[p].summary)
                      ELSE commitTable
    /\ pull' = [pull EXCEPT ![p] =
                  IF ~dbOk THEN PThrow(p, "save")
                  ELSE [pull[p] EXCEPT
                          !.todo = Tail(@), !.retries = 0, !.fetches = 0,
                          !.lastDiff = "none", !.summary = "", !.work = @ + 1,
                          !.pc = IF Tail(pull[p].todo) = <<>> THEN "read" ELSE "diff"]]
    /\ UNCHANGED <<repo, lastPull, npulls, nonPullVars>>

\* the returned list: commit.findMany({where: {projectId}})
PullRead(p, dbOk, track) ==
    /\ pull[p].pc = "read"
    /\ pull' = [pull EXCEPT ![p] =
                  IF ~dbOk THEN PThrow(p, "read")
                  ELSE PIdle("ok", "none",
                             {r.commitHash : r \in {x \in commitTable :
                                                      x.projectId = pull[p].proj}},
                             pull[p].second, pull[p].snap, pull[p].work)]
    /\ lastPull' = IF dbOk /\ track
                   THEN [proj |-> pull[p].proj, snap |-> commitTable]
                   ELSE NoPull
    /\ UNCHANGED <<commitTable, repo, npulls, nonPullVars>>

(***************************************************************************)
(*                           EMBEDDING CLIENT                              *)
(* A text is the tuple of its UTF-16 code units.  A vector is a record:    *)
(* kind names the formula that produced it and vals holds one integer per  *)
(* component - the component itself for an API payload, the component in   *)
(* hundredths for the hash fallback ((hash % 200) / 100 - 1), the draw of  *)
(* Math.random() for the uniform-random fallback, and for the sine-seeded  *)
(* fallback the offset i of seededRandom(seed + i), seed being textHash.   *)
(***************************************************************************)
EmbeddingDim == 768     \* new Array(768)
EmbedMaxRetries == 3    \* MAX_RETRIES of generateEmbedding

EmbCalls == {1, 2}              \* two independent invocations
EmbedSites == {"createProject", "indexGitHubRepo", "qaRoute", "getRagAnswer"}
EmbedTexts == {<<>>, <<122, 122, 122, 122, 122, 122>>}   \* "" and "zzzzzz"
EmbedOutcomes == {"fail", "empty", "short", "full"}
RandomSeeds == {0, 1}           \* what Math.random() may return
FallbackText == <<102, 97, 108, 108, 98, 97, 99, 107>>     \* "fallback"

\* the values of result.embedding.values for a call that resolved
ApiValues(outcome) ==
    CASE outcome = "empty" -> <<>>
      [] outcome = "short" -> <<1, 2, 3>>
      [] OTHER -> [k \in 1..EmbeddingDim |-> 1]

\* ToInt32 of a value given as high * 2^16 + low
ToInt32(high, low) ==
    LET h == high % 65536
    IN  (IF h >= 32768 THEN h - 65536 ELSE h) * 65536 + low

\* Math.imul(31, h) + c | 0, on a signed 32-bit h
HashStep(h, c) ==
    LET t == 31 * (h % 65536) + c
    IN  ToInt32(31 * (h \div 65536) + (t \div 65536), t % 65536)

\* Array.from(text).reduce((h, c) => Math.imul(31, h) + c | 0, seed)
RECURSIVE HashReduce(_, _)
HashReduce(text, h) ==
    IF text = <<>> THEN h ELSE HashReduce(Tail(text), HashStep(h, text[1]))

\* a % n of JavaScript: the sign of the dividend
JsRem(a, n) ==
    IF a >= 0 THEN a % n
    ELSE IF a % n = 0 THEN 0 ELSE (a % n) - n

\* the fallback of gemini.generateEmbedding, components in hundredths
FallbackEmbedding(text) ==
    LET t == IF text = <<>> THEN FallbackText ELSE text
    IN  [kind |-> "hash", seed |-> 0,
         vals |-> [k \in 1..EmbeddingDim |-> JsRem(HashReduce(t, k), 200) - 100]]

\* hash = ((hash << 5) - hash) + char; hash = hash & hash
RECURSIVE SinHash(_, _)
SinHash(text, h) ==
    IF text = <<>> THEN h ELSE SinHash(Tail(text), HashStep(h, text[1]))

\* createFallbackEmbedding: component i is seededRandom(textHash + i)
CreateFallbackEmbedding(text) ==
    [kind |-> "sin", seed |-> SinHash(text, 0),
     vals |-> [k \in 1..EmbeddingDim |-> k - 1]]

\* Array(768).fill(0).map(() => Math.random())
RandomEmbedding(rnd) ==
    [kind |-> "random", seed |-> 0, vals |-> [k \in 1..EmbeddingDim |-> rnd]]

Returned(v) == [threw |-> FALSE, vec |-> v]
Thrown == [threw |-> TRUE, vec |-> [kind |-> "none", seed |-> 0, vals |-> <<>>]]

\* gemini.generateEmbedding once an attempt resolved with a non-empty payload
GeminiSuccess(outcome) == Returned([kind |-> "api", seed |-> 0, vals |-> ApiValues(outcome)])

\* gemini.generateEmbedding once the last attempt failed
GeminiExhausted(text) == Returned(FallbackEmbedding(text))

\* embeddingPipeline.generateEmbedding: try { return await gemini } catch
WrapperGenerateEmbedding(r, text) ==
    IF r.threw THEN Returned(CreateFallbackEmbedding(text)) ELSE r

\* SiteEmbedding with the uniform-random fallback of createProject taken
\* whenever the remote call was exhausted
SiteEmbeddingRandom(site, r, text, rnd) ==
    IF site = "createProject" /\ (r.threw \/ r.vec.kind = "hash")
    THEN Returned(RandomEmbedding(rnd))
    ELSE r

\* the call sites: what the caller holds after its own try / catch
SiteEmbedding(site, r, text, rnd) ==
    CASE site = "createProject" ->
            IF r.threw THEN Returned(RandomEmbedding(rnd)) ELSE r
      [] site = "indexGitHubRepo" ->
            IF r.threw THEN Returned(CreateFallbackEmbedding(text)) ELSE r
      [] OTHER -> r

EIdle == [pc |-> "idle", site |-> "none", text |-> <<>>, retries |-> 0,
          ret |-> Thrown, held |-> Thrown, exhausted |-> FALSE,
          followed |-> FALSE, calls |-> 0, delays |-> <<>>, last |-> "none",
          gemini |-> Thrown]

\* a caller reaches its await generateEmbedding(text); the invocations share
\* no state, so they are taken one after the other
EmbedStart(i, site, text) ==
    /\ emb[i].pc = "idle"
    /\ \A j \in EmbCalls : j < i => emb[j].pc = "done"
    /\ emb' = [emb EXCEPT ![i] = [EIdle EXCEPT !.pc = "embedding",
                                               !.site = site, !.text = text]]
    /\ UNCHANGED <<sum, nonEmbedVars>>

\* one pass of the while loop of gemini.generateEmbedding, with the returns
\* through the wrapper and the call site when the loop ends
EmbedAttempt(i, outcome, rnd, track) ==
    /\ emb[i].pc = "embedding"
    /\ LET e == IF track
                THEN [emb[i] EXCEPT !.followed = TRUE, !.calls = @ + 1,
                                    !.last = outcome]
                ELSE emb[i]
           Finish(g, ex) ==
               LET w == WrapperGenerateEmbedding(g, e.text)
               IN  [e EXCEPT !.pc = "done", !.retries = 0, !.ret = w, !.exhausted = ex,
                             !.gemini = IF track THEN g ELSE Thrown,
                             !.held = SiteEmbedding(e.site, w, e.text, rnd)]
       IN  emb' = [emb EXCEPT ![i] =
                IF outcome \notin {"fail", "empty"}
                THEN Finish(GeminiSuccess(outcome), FALSE)
                ELSE IF e.retries + 1 < EmbedMaxRetries
                THEN [e EXCEPT !.retries = e.retries + 1,
                               !.delays = IF track
                                          THEN Append(@, BackoffDelay(e.retries + 1))
                                          ELSE @]
                ELSE Finish(GeminiExhausted(e.text), TRUE)]
    /\ UNCHANGED <<sum, nonEmbedVars>>

EmbedLive == emb = [i \in EmbCalls |-> EIdle] /\ sum = SOff
EmbedOff == emb = [i \in EmbCalls |-> [EIdle EXCEPT !.pc = "off"]] /\ sum = SOff
SummarizeLive == sum = SIdle /\ emb = [i \in EmbCalls |-> [EIdle EXCEPT !.pc = "off"]]

(***************************************************************************)
(*                          QUESTION ANSWERING                             *)
(* A string is the tuple of its characters.  Scores are kept doubled, so   *)
(* that the weight 0.5 is the integer 1.                                   *)
(***************************************************************************)
KeywordTake == 10       \* take: semanticMode ? undefined : 10
TopFiles == 5           \* .slice(0, 5)
QaMaxRetries == 3       \* MAX_RETRIES of the simple route
PrioritizedLimit == 15  \* .slice(0, 15)
FallbackListed == 3     \* files.slice(0, 3)
RagTake == 10           \* take: 10 of getRagAnswer
RagRetake == 5          \* take: 5 of getRagAnswer

Uppers == <<"A", "B", "C", "D", "E", "F", "G", "H", "I", "J", "K", "L", "M", "N", "O", "P", "Q", "R", "S", "T", "U", "V", "W", "X", "Y", "Z">>
Lowers == <<"a", "b", "c", "d", "e", "f", "g", "h", "i", "j", "k", "l", "m", "n", "o", "p", "q", "r", "s", "t", "u", "v", "w", "x", "y", "z">>

\* String.prototype.toLowerCase, on the letters A-Z
LowerChar(c) ==
    IF \E k \in 1..26 : Uppers[k] = c
    THEN Lowers[CHOOSE k \in 1..26 : Uppers[k] = c]
    ELSE c

ToLowerCase(s) == [k \in 1..Len(s) |-> LowerChar(s[k])]

\* String.prototype.includes
Includes(hay, needle) ==
    \E k \in 0..(Len(hay) - Len(needle)) : SubSeq(hay, k + 1, k + Len(needle)) = needle

IsSpace(c) == c \in {" ", "\n", "\t"}

\* s.split(/\s+/): cur is the piece being read, inGap tells whether the last
\* character read was white space
RECURSIVE SplitFrom(_, _, _)
SplitFrom(s, cur, inGap) ==
    IF s = <<>> THEN <<cur>>
    ELSE IF IsSpace(s[1])
         THEN IF inGap THEN SplitFrom(Tail(s), cur, TRUE)
              ELSE <<cur>> \o SplitFrom(Tail(s), <<>>, TRUE)
         ELSE SplitFrom(Tail(s), Append(cur, s[1]), FALSE)

SplitWhitespace(s) == SplitFrom(s, <<>>, FALSE)

\* lowerQuestion.split(/\s+/).filter(w => w.length > 3)
QuestionWords(lowerQuestion) ==
    SelectSeq(SplitWhitespace(lowerQuestion), LAMBDA w : Len(w) > 3)

B2N(b) == IF b THEN 1 ELSE 0

\* the for loop over the words of the question (doubled weights 2 / 1 / 0.5)
RECURSIVE WordScore(_, _, _, _)
WordScore(words, name, summary, code) ==
    IF words = <<>> THEN 0
    ELSE 4 * B2N(Includes(name, words[1])) + 2 * B2N(Includes(summary, words[1]))
         + B2N(Includes(code, words[1])) + WordScore(Tail(words), name, summary, code)

\* file.sourceCode || ''
SourceOrEmpty(file) == IF file.sourceNull THEN <<>> ELSE file.sourceCode

\* the score of one file in keyword mode (doubled weights 5 / 3 / 2)
KeywordScore(file, question) ==
    LET lowerQuestion == ToLowerCase(question)
        lowerFileName == ToLowerCase(file.fileName)
        lowerSummary == ToLowerCase(file.summary)
        lowerSourceCode == ToLowerCase(SourceOrEmpty(file))
    IN  10 * B2N(Includes(lowerFileName, lowerQuestion))
        + 6 * B2N(Includes(lowerSummary, lowerQuestion))
        + 4 * B2N(Includes(lowerSourceCode, lowerQuestion))
        + WordScore(QuestionWords(lowerQuestion),
                    lowerFileName, lowerSummary, lowerSourceCode)

\* InsertByScore for a sort that is not stable: x goes before its equals
RECURSIVE InsertByScoreUnstable(_, _)
InsertByScoreUnstable(sorted, x) ==
    IF sorted = <<>> THEN <<x>>
    ELSE IF sorted[1].score > x.score
         THEN <<sorted[1]>> \o InsertByScoreUnstable(Tail(sorted), x)
         ELSE <<x>> \o sorted

\* one step of Array.prototype.sort with (a, b) => b.score - a.score: the
\* sort is stable, so x goes behind every element that does not compare
\* after it
RECURSIVE InsertByScore(_, _)
InsertByScore(sorted, x) ==
    IF sorted = <<>> THEN <<x>>
    ELSE IF sorted[1].score >= x.score
         THEN <<sorted[1]>> \o InsertByScore(Tail(sorted), x)
         ELSE <<x>> \o sorted

RECURSIVE SortByScore(_, _)
SortByScore(done, rest) ==
    IF rest = <<>> THEN done
    ELSE SortByScore(InsertByScore(done, rest[1]), Tail(rest))

\* keyword mode of POST /api/qa: the ids of topFiles, for the fetched rows
KeywordTopFiles(files, question) ==
    LET scoredFiles == [k \in 1..Len(files) |->
                            [file |-> files[k].id, score |-> KeywordScore(files[k], question)]]
        sorted == SortByScore(<<>>, scoredFiles)
    IN  [k \in 1..Len(Take(sorted, TopFiles)) |-> sorted[k].file]

(* Semantic mode of POST /api/qa.  A vector is kept as its length and its  *)
(* leading components, every later component being 0: the sums of the     *)
(* route run over all components, and the zeros add nothing to them.      *)
Vec(len, head) == [null |-> FALSE, len |-> len, head |-> head]
\* the embedding column is nullable: a row whose vector was never written
NoVector == [null |-> TRUE, len |-> 0, head |-> <<>>]

\* embedding.reduce((sum, v, i) => sum + v * qEmbedding[i], 0)
RECURSIVE DotFrom(_, _, _)
DotFrom(a, b, i) ==
    IF i > Len(a) \/ i > Len(b) THEN 0
    ELSE a[i] * b[i] + DotFrom(a, b, i + 1)

Dot(a, b) == DotFrom(a.head, b.head, 1)

\* a similarity is the real number dot / sqrt(den); -1 is -1 / sqrt(1)
MinusOne == [dot |-> -1, den |-> 1]

\* the similarity the route gives one fetched row
CosineSimilarity(embedding, questionEmbedding) ==
    IF embedding.null \/ questionEmbedding.null
       \/ embedding.len # questionEmbedding.len
    THEN MinusOne
    ELSE LET dot == Dot(embedding, questionEmbedding)
             normA2 == Dot(embedding, embedding)
             normB2 == Dot(questionEmbedding, questionEmbedding)
         IN  IF normA2 # 0 /\ normB2 # 0
             THEN [dot |-> dot, den |-> normA2 * normB2]
             ELSE MinusOne

\* x < y for two similarities, compared exactly by sign and by squares
SimLess(x, y) ==
    IF x.dot < 0 /\ y.dot >= 0 THEN TRUE
    ELSE IF x.dot >= 0 /\ y.dot < 0 THEN FALSE
    ELSE IF x.dot >= 0
         THEN x.dot * x.dot * y.den < y.dot * y.dot * x.den
         ELSE x.dot * x.dot * y.den > y.dot * y.dot * x.den

\* one step of the sort with (a, b) => b.similarity - a.similarity
RECURSIVE InsertBySimilarity(_, _)
InsertBySimilarity(sorted, x) ==
    IF sorted = <<>> THEN <<x>>
    ELSE IF ~SimLess(sorted[1].similarity, x.similarity)
         THEN <<sorted[1]>> \o InsertBySimilarity(Tail(sorted), x)
         ELSE <<x>> \o sorted

RECURSIVE SortBySimilarity(_, _)
SortBySimilarity(done, rest) ==
    IF rest = <<>> THEN done
    ELSE SortBySimilarity(InsertBySimilarity(done, rest[1]), Tail(rest))

\* semantic mode: the ids of topFiles, for the fetched rows
SemanticTopFiles(files, questionEmbedding) ==
    LET scoredFiles == [k \in 1..Len(files) |->
                            [file |-> files[k].id,
                             similarity |-> CosineSimilarity(files[k].embedding,
                                                             questionEmbedding)]]
        sorted == SortBySimilarity(<<>>, scoredFiles)
    IN  [k \in 1..Len(Take(sorted, TopFiles)) |-> sorted[k].file]

\* what generateEmbedding(question) hands the route: a payload of the
\* stored dimension, and one of another length
QuestionVectors == {Vec(EmbeddingDim, <<1, 0>>), Vec(EmbeddingDim, <<1, 2>>),
                    Vec(3, <<1, 0, 0>>)}

\* the rows of SourceCodeEmbedding the model draws from
FileShapes ==
    << [fileName |-> <<"A", "u", "t", "h", ".", "t", "s">>, summary |-> <<"a", "u", "t", "h">>, sourceCode |-> <<"l", "o", "g", "i", "n">>, sourceNull |-> FALSE,
         embedding |-> Vec(EmbeddingDim, <<1, 0>>)],
       [fileName |-> <<"R", "E", "A", "D", "M", "E", ".", "m", "d">>, summary |-> <<"d", "o", "c", "s">>, sourceCode |-> <<"#", " ", "h", "i">>, sourceNull |-> FALSE,
         embedding |-> NoVector],
       [fileName |-> <<"d", "b", ".", "t", "s">>, summary |-> <<"l", "o", "g", "i", "n">>, sourceCode |-> <<"a", "u", "t", "h", " ", "L", "o", "g", "i", "n">>, sourceNull |-> FALSE,
         embedding |-> Vec(EmbeddingDim, <<-1, 0>>)],
       [fileName |-> <<"r", "e", "a", "d", "m", "e">>, summary |-> <<>>, sourceCode |-> <<>>, sourceNull |-> TRUE,
         embedding |-> Vec(EmbeddingDim, <<1, 1>>)] >>

QaProjects == {"A", "B"}
OtherProjectRow == 2    \* the one row of the table that belongs to project B

\* a table of n rows in row order; row k has id k
StoreOf(n, rot) ==
    [k \in 1..n |->
        LET shape == FileShapes[((k + rot) % Len(FileShapes)) + 1]
        IN  [id |-> k, projectId |-> IF k = OtherProjectRow THEN "B" ELSE "A",
             fileName |-> shape.fileName, summary |-> shape.summary,
             sourceCode |-> shape.sourceCode, sourceNull |-> shape.sourceNull,
             embedding |-> shape.embedding]]

\* StoreOf(n, 0) with row pos replaced by the one file that holds "needle"
NeedleStore(n, pos) ==
    [StoreOf(n, 0) EXCEPT ![pos] =
        [id |-> pos, projectId |-> IF pos = OtherProjectRow THEN "B" ELSE "A",
         fileName |-> <<"s", "r", "c", "/", "i", "n", "d", "e", "x", ".", "t", "s">>, summary |-> <<"e", "n", "t", "r", "y">>,
         sourceCode |-> <<"n", "e", "e", "d", "l", "e">>, sourceNull |-> FALSE,
         embedding |-> Vec(EmbeddingDim, <<0, 1>>)]]

Questions == {<<"n", "e", "e", "d", "l", "e">>, <<>>, <<"A", "u", "t", "h">>, <<"a", "u", "t", "h", " ", " ", "l", "o", "g", "i", "n">>, <<"w", "h", "a", "t", " ", "r", "e", "a", "d", "m", "e">>}

\* findMany({ where: { projectId } }): the rows of the project, in row order
ProjectRows(table, proj) == SelectSeq(table, LAMBDA f : f.projectId = proj)

Ids(files) == [k \in 1..Len(files) |-> files[k].id]

(* The simple route. *)
StopWords == {<<"w", "h", "a", "t">>,
              <<"w", "h", "e", "r", "e">>,
              <<"w", "h", "e", "n">>,
              <<"w", "h", "i", "c", "h">>,
              <<"a", "b", "o", "u", "t">>,
              <<"d", "o", "e", "s">>,
              <<"t", "h", "i", "s">>,
              <<"t", "h", "a", "t">>,
              <<"h", "a", "v", "e">>,
              <<"f", "r", "o", "m">>,
              <<"w", "i", "t", "h">>,
              <<"f", "i", "l", "e">>,
              <<"c", "o", "d", "e">>,
              <<"f", "u", "n", "c", "t", "i", "o", "n">>,
              <<"p", "a", "g", "e">>,
              <<"b", "u", "t", "t", "o", "n">>,
              <<"c", "o", "m", "p", "o", "n", "e", "n", "t">>}

\* questionWords.filter(word => word.length > 3 && !stopwords.includes(word))
QuestionKeywords(question) ==
    SelectSeq(SplitWhitespace(ToLowerCase(question)),
              LAMBDA w : Len(w) > 3 /\ w \notin StopWords)

AnyIncludes(hay, needles) == \E n \in needles : Includes(hay, n)

IsMatching(file, keywords) ==
    \E k \in 1..Len(keywords) :
        \/ Includes(ToLowerCase(file.fileName), keywords[k])
        \/ Includes(ToLowerCase(SourceOrEmpty(file)), keywords[k])

IsReadme(file) == Includes(ToLowerCase(file.fileName), <<"r", "e", "a", "d", "m", "e">>)
IsPackage(file) == Includes(ToLowerCase(file.fileName), <<"p", "a", "c", "k", "a", "g", "e", ".", "j", "s", "o", "n">>)
IsSource(file) ==
    /\ AnyIncludes(ToLowerCase(file.fileName),
                   {<<"/", "s", "r", "c", "/">>, <<"/", "a", "p", "p", "/">>, <<"/", "p", "a", "g", "e", "s", "/">>, <<"i", "n", "d", "e", "x", ".">>, <<"m", "a", "i", "n", ".">>, <<"a", "p", "p", ".">>})
    /\ ~IsReadme(file) /\ ~IsPackage(file)
IsConfig(file) ==
    /\ AnyIncludes(ToLowerCase(file.fileName),
                   {<<".", "c", "o", "n", "f", "i", "g", ".">>, <<"t", "s", "c", "o", "n", "f", "i", "g", ".">>, <<"w", "e", "b", "p", "a", "c", "k", ".">>, <<".", "e", "n", "v">>, <<"d", "o", "c", "k", "e", "r", "f", "i", "l", "e">>})
    /\ ~IsReadme(file) /\ ~IsPackage(file) /\ ~IsSource(file)

\* prioritizedFiles: the matching files are copies, so no includes() over
\* them ever finds a fetched row, and no fetched list ever holds a copy
PrioritizedFiles(allFiles, question) ==
    LET keywords == QuestionKeywords(question)
        matching == SelectSeq(allFiles, LAMBDA f : IsMatching(f, keywords))
        readmes == SelectSeq(allFiles, IsReadme)
        packages == SelectSeq(allFiles, IsPackage)
        sources == SelectSeq(allFiles, IsSource)
        configs == SelectSeq(allFiles, IsConfig)
        others == SelectSeq(allFiles, LAMBDA f :
                      ~IsReadme(f) /\ ~IsPackage(f) /\ ~IsSource(f) /\ ~IsConfig(f))
    IN  Take(matching \o readmes \o packages \o sources \o configs \o others,
             PrioritizedLimit)

(* Answers are tuples of tokens: fixed sentences of the code, opaque text    *)
(* ("<...>", which may be empty or markup only) and markdown markers, the   *)
(* backquote being "tick" and the triple backquote "fence".                *)
Apology == <<"Sorry, there was an error generating the answer. Please try again later.">>
NoFilesAnswer == <<"Sorry, no files were found for this project. Please add some files first.">>
StreamError == <<"Error during streaming. Please try again.">>
RagError ==
    <<"Sorry, there was an error generating the answer: ", "<message>",
      ". Please try again later.">>
FallbackNote ==
    <<"NOTE: Due to API limitations, I'm providing a simplified answer. For more detailed information, please try again later or rephrase your question.">>

\* what result.response.text() may be
ModelAnswers == {<<>>, <<"#", "<text>", "\n", "**", "<text>", "**", "tick", "<text>", "tick">>}
GenOutcomes == {"ok", "fail", "streamfail"}

\* the tokens that are fixed, readable sentences
VisibleTokens ==
    {Apology[1], NoFilesAnswer[1], StreamError[1], RagError[1], RagError[3],
     FallbackNote[1], "FILE LOCATION:", "EXPLANATION:", "Based on the files in this repository, ",
     "No specific files found for this question."}

Displayable(answer) == \E k \in 1..Len(answer) : answer[k] \in VisibleTokens

\* generateFallbackAnswer of a route that leaves the answer empty instead
GenerateFallbackAnswerNone(question, files) == [threw |-> FALSE, answer |-> <<>>]

\* generateFallbackAnswer: throws when the first README of the list has no
\* source text (readmeFile.sourceCode.split)
GenerateFallbackAnswer(question, files) ==
    LET readmes == SelectSeq(files, IsReadme)
        listing == IF files = <<>>
                   THEN <<"No specific files found for this question.", "\n", "\n">>
                   ELSE [k \in 1..(2 * Len(Take(files, FallbackListed))) |->
                            IF k % 2 = 1 THEN "<fileName>" ELSE "\n"] \o <<"\n">>
        keywords == IF QuestionKeywords(question) # <<>>
                    THEN <<"<keywords>", "\n", "\n">> ELSE <<>>
    IN  IF readmes # <<>> /\ readmes[1].sourceNull
        THEN [threw |-> TRUE, answer |-> <<>>]
        ELSE [threw |-> FALSE,
              answer |-> <<"FILE LOCATION:", "\n">> \o listing
                         \o <<"EXPLANATION:", "\n", "Based on the files in this repository, ">>
                         \o (IF readmes # <<>> THEN <<"<readme>">> ELSE <<"<count>">>)
                         \o <<"\n", "\n">> \o keywords \o FallbackNote]

\* the replace chain of the simple route, token by token: heading and code
\* markers go, bold markers become tags, section titles get a line break
PostProcessToken(t) ==
    CASE t \in {"#", "tick", "fence"} -> <<>>
      [] t = "**" -> <<"<b>">>
      [] t \in {"FILE LOCATION:", "CODE SNIPPET:", "EXPLANATION:"} -> <<"\n", t>>
      [] OTHER -> <<t>>

\* the last replace of the chain: runs of line breaks become two
RECURSIVE NormalizeSpacing(_, _)
NormalizeSpacing(answer, breaks) ==
    IF answer = <<>> THEN <<>>
    ELSE IF answer[1] = "\n"
         THEN IF breaks >= 2 THEN NormalizeSpacing(Tail(answer), breaks)
              ELSE <<"\n">> \o NormalizeSpacing(Tail(answer), breaks + 1)
         ELSE <<answer[1]>> \o NormalizeSpacing(Tail(answer), 0)

RECURSIVE ReplaceTokens(_)
ReplaceTokens(answer) ==
    IF answer = <<>> THEN <<>>
    ELSE PostProcessToken(answer[1]) \o ReplaceTokens(Tail(answer))

PostProcess(answer) == NormalizeSpacing(ReplaceTokens(answer), 0)

\* what the caller receives: the status, whether the body has an error field,
\* and the answer (for getRagAnswer, the text its stream yields)
NoResp == [status |-> 0, error |-> FALSE, answer |-> <<>>, threw |-> FALSE]
Resp(status, error, answer) ==
    [status |-> status, error |-> error, answer |-> answer, threw |-> FALSE]

\* an outermost catch that throws the error on
OuterCatchRethrow(entry) == [NoResp EXCEPT !.threw = TRUE]

\* the outermost catch of an entry point
OuterCatch(entry) ==
    IF entry = "getRagAnswer" THEN Resp(200, FALSE, RagError)
    ELSE Resp(500, TRUE, Apology)

QIdle == [pc |-> "idle", entry |-> "none", question |-> <<>>, proj |-> "A",
          files |-> <<>>, retries |-> 0, cause |-> "none", resp |-> NoResp,
          semantic |-> FALSE, qvec |-> NoVector]
NoTop == [question |-> <<>>, proj |-> "none", top |-> <<>>]

\* cause: what failed for good, "store" (a findMany) or "generation"
QDone(q, cause, r) == [q EXCEPT !.pc = "done", !.retries = 0, !.cause = cause, !.resp = r]

StoreSizes == {0, 1, 6, MaxFiles}
QaEntries == {"qaRoute", "simpleRoute", "getRagAnswer"}

\* a request arrives; the routes answer 400 when the question is missing
QaStart(entry, question, proj, semantic, track) ==
    /\ qa.pc \in {"idle", "done"}
    /\ nqa < MaxQa
    /\ nqa' = nqa + 1
    /\ prevTop' = IF track /\ qa.pc = "done" /\ qa.entry = "qaRoute" /\ qa.files # <<>>
                     /\ ~qa.semantic
                  THEN [question |-> qa.question, proj |-> qa.proj, top |-> qa.files]
                  ELSE prevTop
    /\ LET q == [QIdle EXCEPT !.entry = entry, !.question = question, !.proj = proj,
                               !.semantic = (semantic /\ entry = "qaRoute")]
       IN  qa' = IF entry # "getRagAnswer" /\ question = <<>>
                 THEN QDone(q, "none", Resp(400, TRUE, <<>>))
                 ELSE [q EXCEPT !.pc = "fetch"]
    /\ UNCHANGED <<store, nonQaVars>>

\* the first findMany of the entry point, and what is computed from its rows
QaFetch(dbOk) ==
    /\ qa.pc = "fetch"
    /\ LET rows == ProjectRows(store, qa.proj)
           fetched == IF qa.semantic THEN rows ELSE Take(rows, KeywordTake)
       IN  qa' =
             CASE qa.entry = "qaRoute" ->
                    IF ~dbOk THEN QDone(qa, "store", OuterCatch(qa.entry))
                    ELSE IF fetched = <<>>
                    THEN QDone(qa, "none", Resp(200, FALSE, NoFilesAnswer))
                    ELSE IF qa.semantic
                    THEN [qa EXCEPT !.pc = "embed", !.files = Ids(fetched)]
                    ELSE [qa EXCEPT !.pc = "generate",
                                    !.files = KeywordTopFiles(fetched, qa.question)]
               [] qa.entry = "simpleRoute" ->
                    IF ~dbOk THEN QDone(qa, "store", OuterCatch(qa.entry))
                    ELSE IF rows = <<>>
                    THEN QDone(qa, "none", Resp(200, FALSE, NoFilesAnswer))
                    ELSE [qa EXCEPT !.pc = "generate",
                                    !.files = Ids(PrioritizedFiles(rows, qa.question))]
               [] OTHER ->
                    IF ~dbOk \/ Take(rows, RagTake) = <<>>
                    THEN [qa EXCEPT !.pc = "refetch"]
                    ELSE [qa EXCEPT !.pc = "generate", !.files = Ids(Take(rows, RagTake))]
    /\ UNCHANGED <<store, prevTop, nqa, nonQaVars>>

\* semantic mode: generateEmbedding(question) returns (it raises nothing,
\* so the catch that would take files.slice(0, 5) is given the result of a
\* call that returned), then the rows are scored, sorted and sliced
QaEmbed(questionEmbedding) ==
    /\ qa.pc = "embed"
    /\ LET files == [k \in 1..Len(qa.files) |-> store[qa.files[k]]]
           r == Returned(questionEmbedding)
       IN  qa' = [qa EXCEPT !.pc = "generate", !.qvec = questionEmbedding,
                            !.files = IF r.threw THEN Take(qa.files, TopFiles)
                                      ELSE SemanticTopFiles(files, r.vec)]
    /\ UNCHANGED <<store, prevTop, nqa, nonQaVars>>

\* getRagAnswer, result.length === 0: the second findMany
QaRefetch(dbOk) ==
    /\ qa.pc = "refetch"
    /\ LET fallbackResult == Take(ProjectRows(store, qa.proj), RagRetake)
       IN  qa' = IF ~dbOk THEN QDone(qa, "store", OuterCatch(qa.entry))
                 ELSE IF fallbackResult # <<>>
                 THEN [qa EXCEPT !.pc = "generate", !.files = Ids(fallbackResult)]
                 ELSE [qa EXCEPT !.pc = "anyfetch"]
    /\ UNCHANGED <<store, prevTop, nqa, nonQaVars>>

\* getRagAnswer, fallbackResult empty: the third findMany
QaAnyFetch(dbOk) ==
    /\ qa.pc = "anyfetch"
    /\ LET anyFiles == Take(ProjectRows(store, qa.proj), RagRetake)
       IN  qa' = IF ~dbOk THEN QDone(qa, "store", OuterCatch(qa.entry))
                 ELSE [qa EXCEPT !.pc = "generate", !.files = Ids(anyFiles)]
    /\ UNCHANGED <<store, prevTop, nqa, nonQaVars>>

\* one call of the generative model, with what the entry point makes of it;
\* for getRagAnswer the answer is what the returned stream yields
QaGenerate(outcome, text) ==
    /\ qa.pc = "generate"
    /\ qa' =
         CASE qa.entry = "qaRoute" ->
                IF outcome = "ok" THEN QDone(qa, "none", Resp(200, FALSE, text))
                ELSE QDone(qa, "generation", Resp(200, FALSE, Apology))
           [] qa.entry = "simpleRoute" ->
                IF outcome = "ok" THEN QDone(qa, "none", Resp(200, FALSE, PostProcess(text)))
                ELSE IF qa.retries + 1 < QaMaxRetries
                THEN [qa EXCEPT !.retries = qa.retries + 1]
                ELSE LET files == [k \in 1..Len(qa.files) |-> store[qa.files[k]]]
                         fb == GenerateFallbackAnswer(qa.question, files)
                     IN  IF fb.threw THEN QDone(qa, "generation", OuterCatch(qa.entry))
                         ELSE QDone(qa, "generation", Resp(200, FALSE, PostProcess(fb.answer)))
           [] OTHER ->
                IF outcome = "ok" THEN QDone(qa, "none", Resp(200, FALSE, text))
                ELSE IF outcome = "fail" THEN QDone(qa, "generation", OuterCatch(qa.entry))
                ELSE QDone(qa, "generation", Resp(200, FALSE, text \o StreamError))
    /\ UNCHANGED <<store, prevTop, nqa, nonQaVars>>

QaLive ==
    /\ store \in {StoreOf(n, rot) : n \in StoreSizes, rot \in 0..(Len(FileShapes) - 1)}
                 \cup {NeedleStore(MaxFiles, pos) : pos \in {1, MaxFiles}}
    /\ qa = QIdle
    /\ prevTop = NoTop
    /\ nqa = 0

QaRequestsOff ==
    /\ qa = [QIdle EXCEPT !.pc = "off"]
    /\ prevTop = NoTop
    /\ nqa = MaxQa

QaOff == QaRequestsOff /\ store = <<>>

(***************************************************************************)
(*                        RE-EMBED (pages/api handler)                     *)
(***************************************************************************)
\* what loader.load() gives for a repository that can be read
RepoDocs ==
    << [source |-> <<"A", "u", "t", "h", ".", "t", "s">>, pageContent |-> <<"l", "o", "g", "i", "n">>],
       [source |-> <<"d", "b", ".", "t", "s">>, pageContent |-> <<"a", "u", "t", "h">>] >>

\* the sample README of loadGitHubRepository, for the repository "repo"
PlaceholderReadme ==
    [source |-> <<"R", "E", "A", "D", "M", "E", ".", "m", "d">>,
     pageContent |-> <<"#", " ", "r", "e", "p", "o", "\n", "\n", "T", "h", "i", "s", " ", "r", "e", "p", "o", "s", "i", "t", "o", "r", "y", " ", "a", "p", "p", "e", "a", "r", "s", " ", "t", "o", " ", "b", "e", " ", "e", "m", "p", "t", "y", " ", "o", "r", " ", "i", "n", "a", "c", "c", "e", "s", "s", "i", "b", "l", "e", ".", " ", "P", "l", "e", "a", "s", "e", " ", "a", "d", "d", " ", "s", "o", "m", "e", " ", "f", "i", "l", "e", "s", " ", "t", "o", " ", "t", "h", "i", "s", " ", "r", "e", "p", "o", "s", "i", "t", "o", "r", "y", ".">>]

FallbackSummaryText ==
    <<"U", "p", "d", "a", "t", "e", "d", " ", "c", "o", "d", "e", " ", "w", "i", "t", "h", " ", "v", "a", "r", "i", "o", "u", "s", " ", "i", "m", "p", "r", "o", "v", "e", "m", "e", "n", "t", "s", " ", "a", "n", "d", " ", "f", "i", "x", "e", "s", ".">>
ModelSummaryText == <<"d", "o", "c", "s">>

\* what one loader.load() does: it fails, or it returns the documents of
\* the branch in the order the loader produced them
LoadFailed == [ok |-> FALSE, docs |-> <<>>]
Loaded(docs) == [ok |-> TRUE, docs |-> docs]

\* a loader that gives up after branch main
LoadGitHubRepositoryMainOnly(main, master) ==
    IF main.ok
    THEN [threw |-> FALSE, docs |-> main.docs, attempts |-> <<"main">>]
    ELSE [threw |-> TRUE, docs |-> <<>>, attempts |-> <<"main">>]

\* loadGitHubRepository: branch main; in its catch, branch master; in the
\* catch of that, the sample README.  attempts lists the loads awaited.
LoadGitHubRepository(main, master) ==
    IF main.ok
    THEN [threw |-> FALSE, docs |-> main.docs, attempts |-> <<"main">>]
    ELSE IF master.ok
    THEN [threw |-> FALSE, docs |-> master.docs, attempts |-> <<"main", "master">>]
    ELSE [threw |-> FALSE, docs |-> <<PlaceholderReadme>>,
          attempts |-> <<"main", "master">>]

\* per document: did the summary come from the model, has the embedding 768
\* components, did create succeed, did the raw UPDATE of the vector succeed
DocOutcomes == [sum : BOOLEAN, emb768 : BOOLEAN, create : BOOLEAN, update : BOOLEAN]

\* summarizeCode: it catches everything, and summarizeCommit under it hands
\* back its fixed text once the attempts are used up
SummarizeCode(o) == IF o.sum THEN ModelSummaryText ELSE FallbackSummaryText

\* sourceCodeEmbedding.create, then UPDATE ... SET embedding inside the same
\* try: a failed create leaves no row, a failed UPDATE a row without vector
InsertRow(table, proj, fileName, summary, sourceCode, o, writeVector) ==
    LET row == [id |-> Len(table) + 1, projectId |-> proj, fileName |-> fileName,
                summary |-> summary, sourceCode |-> sourceCode, sourceNull |-> FALSE,
                embedding |-> IF writeVector /\ o.update
                              THEN Vec(EmbeddingDim, <<1, 0>>) ELSE NoVector]
    IN  IF o.create THEN Append(table, row) ELSE table

\* what the run leaves to be read back: the file, what was to be stored for
\* it, and how its vector and its create came out
Processed(doc, o, attempted) ==
    [fileName |-> doc.source, sourceCode |-> doc.pageContent,
     summary |-> SummarizeCode(o), emb768 |-> o.emb768,
     create |-> IF ~attempted THEN "none" ELSE IF o.create THEN "ok" ELSE "failed"]

\* the catch around the insert logs, and the loop goes on with the next file
AfterInsertAbort(i, n, o) == IF o.create THEN i + 1 ELSE n + 1

AfterInsert(i, n, o) == i + 1

\* the for loop of indexGitHubRepo from document i on: a document whose
\* embedding has not 768 components is passed over before the insert
RECURSIVE IndexDocs(_, _, _, _, _)
IndexDocs(table, proj, docs, outcomes, i) ==
    IF i > Len(docs) THEN table
    ELSE LET o == outcomes[i]
             doc == docs[i]
         IN  IF ~o.emb768
             THEN IndexDocs(table, proj, docs, outcomes, i + 1)
             ELSE IndexDocs(InsertRow(table, proj, doc.source, SummarizeCode(o),
                                      doc.pageContent, o, TRUE),
                            proj, docs, outcomes, AfterInsert(i, Len(docs), o))

\* indexGitHubRepo: nothing in it throws past its own try blocks
IndexGitHubRepo(table, proj, docs, outcomes) ==
    [threw |-> FALSE, table |-> IndexDocs(table, proj, docs, outcomes, 1)]

Raised == [NoResp EXCEPT !.threw = TRUE]

NoLoad == [threw |-> FALSE, docs |-> <<>>, attempts |-> <<>>]

\* run counts the requests; before is the log of the request before this
\* one when that request was answered 200 (history)
RIdle == [pc |-> "idle", failure |-> FALSE, lost |-> FALSE, resp |-> NoResp,
          base |-> 0, log |-> <<>>, run |-> 1, before |-> <<>>]
RDone(failure, lost, r) ==
    [RIdle EXCEPT !.pc = "done", !.failure = failure, !.lost = lost, !.resp = r,
                  !.run = reembed.run, !.before = reembed.before]

NoOutcome == [sum |-> FALSE, emb768 |-> FALSE, create |-> FALSE, update |-> FALSE]

\* a run of ingestion before its first step: path tells createProject's
\* background task from indexGitHubRepo
IIdle(path) ==
    [pc |-> "load", path |-> path, retries |-> 0, main |-> LoadFailed,
     master |-> LoadFailed, load |-> NoLoad, docs |-> <<>>, i |-> 1, base |-> 0,
     log |-> <<>>, o |-> NoOutcome, flight |-> {}, pulled |-> FALSE]
IOff == [IIdle("none") EXCEPT !.pc = "off"]

\* method and body checks, then getServerSession (awaited outside any try)
ReembedStart(req, session) ==
    /\ reembed.pc = "idle"
    /\ reembed' =
         CASE req = "get" -> RDone(FALSE, FALSE, Resp(405, TRUE, <<>>))
           [] req = "noid" -> RDone(FALSE, FALSE, Resp(400, TRUE, <<>>))
           [] session = "throw" -> RDone(TRUE, FALSE, Raised)
           [] session = "none" -> RDone(FALSE, FALSE, Resp(401, TRUE, <<>>))
           [] OTHER -> [reembed EXCEPT !.pc = "lookup"]
    /\ UNCHANGED <<store, qa, prevTop, nqa, ingest, nonStoreVars>>

\* the client sends the re-embed request again once it has its answer
ReembedAgain ==
    /\ reembed.pc = "done"
    /\ reembed.run < MaxReembeds
    /\ reembed' = [RIdle EXCEPT
                      !.run = reembed.run + 1,
                      !.before = IF reembed.resp.status = 200
                                 THEN reembed.log ELSE <<>>]
    /\ UNCHANGED <<store, qa, prevTop, nqa, ingest, nonStoreVars>>

\* project.findUnique (awaited outside any try), then the repository URL
ReembedLookup(dbOk, found, hasUrl) ==
    /\ reembed.pc = "lookup"
    /\ reembed' =
         IF ~dbOk THEN RDone(TRUE, FALSE, Raised)
         ELSE IF ~found THEN RDone(FALSE, FALSE, Resp(404, TRUE, <<>>))
         ELSE IF ~hasUrl THEN RDone(FALSE, FALSE, Resp(400, TRUE, <<>>))
         ELSE [reembed EXCEPT !.pc = "index"]
    /\ UNCHANGED <<store, qa, prevTop, nqa, ingest, nonStoreVars>>

\* try { await indexGitHubRepo(...) } catch: rows are added to project A
ReembedIndex(main, master, outcomes) ==
    /\ reembed.pc = "index"
    /\ LET docs == LoadGitHubRepository(main, master).docs
           r == IndexGitHubRepo(store, "A", docs, outcomes)
       IN  /\ store' = IF r.threw THEN store ELSE r.table
           /\ reembed' =
                IF r.threw THEN RDone(TRUE, FALSE, Resp(500, TRUE, <<>>))
                ELSE [RDone(FALSE, Len(r.table) < Len(store) + Len(docs),
                            Resp(200, FALSE, <<>>))
                        EXCEPT !.base = Len(store),
                               !.log = [k \in 1..Len(docs) |->
                                           Processed(docs[k], outcomes[k],
                                                     outcomes[k].emb768)]]
    /\ UNCHANGED <<qa, prevTop, nqa, ingest, nonStoreVars>>

(* The background task of createProject: load, sort, one file at a time. *)
LoadMaxRetries == 3

Doc(source) == [source |-> source, pageContent |-> <<"x">>]

ReadmeMd == Doc(<<"R", "E", "A", "D", "M", "E", ".", "m", "d">>)
PackageJson == Doc(<<"p", "a", "c", "k", "a", "g", "e", ".", "j", "s", "o", "n">>)
SrcIndexTs == Doc(<<"s", "r", "c", "/", "i", "n", "d", "e", "x", ".", "t", "s">>)
License == Doc(<<"L", "I", "C", "E", "N", "S", "E">>)
LibSrcATs == Doc(<<"l", "i", "b", "/", "s", "r", "c", "/", "a", ".", "t", "s">>)

\* the orders the loader may hand the documents of a repository in
LoaderLists ==
    { <<ReadmeMd, PackageJson, SrcIndexTs>>, <<ReadmeMd, SrcIndexTs, PackageJson>>,
      <<PackageJson, ReadmeMd, SrcIndexTs>>, <<PackageJson, SrcIndexTs, ReadmeMd>>,
      <<SrcIndexTs, ReadmeMd, PackageJson>>, <<SrcIndexTs, PackageJson, ReadmeMd>>,
      <<License, SrcIndexTs>>, <<License, LibSrcATs, PackageJson, ReadmeMd>>,
      <<>> }
MasterLists == { <<License, SrcIndexTs>>, <<PackageJson>> }

\* the comparator of docs.sort in createProject
ComparePriority(fileA, fileB) ==
    LET readmeA == Includes(ToLowerCase(fileA), <<"r", "e", "a", "d", "m", "e">>)
        readmeB == Includes(ToLowerCase(fileB), <<"r", "e", "a", "d", "m", "e">>)
        packageA == Includes(fileA, <<"p", "a", "c", "k", "a", "g", "e", ".", "j", "s", "o", "n">>)
        packageB == Includes(fileB, <<"p", "a", "c", "k", "a", "g", "e", ".", "j", "s", "o", "n">>)
        srcA == Includes(fileA, <<"/", "s", "r", "c", "/">>)
        srcB == Includes(fileB, <<"/", "s", "r", "c", "/">>)
    IN  IF readmeA /\ ~readmeB THEN -1
        ELSE IF ~readmeA /\ readmeB THEN 1
        ELSE IF packageA /\ ~packageB THEN -1
        ELSE IF ~packageA /\ packageB THEN 1
        ELSE IF srcA /\ ~srcB THEN -1
        ELSE IF ~srcA /\ srcB THEN 1
        ELSE 0

\* one step of the stable sort: x goes behind every element that the
\* comparator does not put after it
RECURSIVE InsertByPriority(_, _)
InsertByPriority(sorted, x) ==
    IF sorted = <<>> THEN <<x>>
    ELSE IF ComparePriority(sorted[1].source, x.source) <= 0
         THEN <<sorted[1]>> \o InsertByPriority(Tail(sorted), x)
         ELSE <<x>> \o sorted

RECURSIVE SortByPriority(_, _)
SortByPriority(done, rest) ==
    IF rest = <<>> THEN done
    ELSE SortByPriority(InsertByPriority(done, rest[1]), Tail(rest))

PrioritizedDocs(docs) == SortByPriority(<<>>, docs)

\* createProject: one turn of the while loop around loadGitHubRepository;
\* an empty result counts as a retry, after the third the task returns, and
\* a result with documents is sorted.  indexGitHubRepo: the one load, taken
\* as it comes.
IngestLoad(main, master) ==
    /\ ingest.pc = "load"
    /\ LET r == LoadGitHubRepository(main, master)
           seen == [ingest EXCEPT !.main = main,
                                  !.master = IF main.ok THEN LoadFailed ELSE master,
                                  !.load = r]
       IN  ingest' =
             IF ingest.path = "createProject"
             THEN IF r.threw \/ r.docs = <<>>
                  THEN IF ingest.retries + 1 < LoadMaxRetries
                       THEN [seen EXCEPT !.retries = ingest.retries + 1]
                       ELSE [seen EXCEPT !.pc = "done", !.retries = 0]
                  ELSE [seen EXCEPT !.pc = "summarize", !.retries = 0,
                                    !.docs = PrioritizedDocs(r.docs),
                                    !.i = 1, !.base = Len(store)]
             ELSE [seen EXCEPT !.pc = IF r.docs = <<>> THEN "done" ELSE "summarize",
                               !.docs = r.docs, !.i = 1, !.base = Len(store)]
    /\ UNCHANGED <<store, qa, prevTop, nqa, reembed, nonStoreVars>>

\* every document from i on at once, as a Promise.all over the documents
\* would start them
StartedAll(docs, i, call) == {[file |-> k, call |-> call] : k \in i..Len(docs)}

\* the remote calls begun when the loop reaches await summarizeCode(...) or
\* await generateEmbedding(...) for document i
Started(docs, i, call) == {[file |-> i, call |-> call]}

\* the loop reaches one of its two awaited remote calls
IngestCall ==
    /\ ingest.pc \in {"summarize", "embed"}
    /\ ingest' = [ingest EXCEPT
                    !.flight = @ \cup Started(ingest.docs, ingest.i, ingest.pc),
                    !.pc = IF ingest.pc = "summarize" THEN "summarizing"
                           ELSE "embedding"]
    /\ UNCHANGED <<store, qa, prevTop, nqa, reembed, nonStoreVars>>

\* where the loop of the path goes once the vector is there: createProject
\* always to its insert; indexGitHubRepo past it (continue) unless the
\* vector has 768 components
ReachesInsert(path, emb768) == path = "createProject" \/ emb768

\* where a run goes when its loop has ended: createProject calls pullCommit
AfterLoop(path) == IF path = "createProject" THEN "pull" ELSE "done"

\* the awaited call settles; neither summarizeCode nor generateEmbedding
\* raises, so the catch beside each await is not taken
IngestReturn(ok) ==
    /\ ingest.pc \in {"summarizing", "embedding"}
    /\ LET call == IF ingest.pc = "summarizing" THEN "summarize" ELSE "embed"
           landed == [ingest EXCEPT
                        !.flight = @ \ {[file |-> ingest.i, call |-> call]}]
           o == [ingest.o EXCEPT !.emb768 = ok]
           next == ingest.i + 1
       IN  ingest' =
             IF call = "summarize"
             THEN [landed EXCEPT !.pc = "embed", !.o = [ingest.o EXCEPT !.sum = ok]]
             ELSE IF ReachesInsert(ingest.path, ok)
             THEN [landed EXCEPT !.pc = "insert", !.o = o]
             ELSE [landed EXCEPT
                     !.log = Append(@, Processed(ingest.docs[ingest.i], o, FALSE)),
                     !.o = NoOutcome, !.i = next,
                     !.pc = IF next > Len(ingest.docs)
                            THEN AfterLoop(ingest.path) ELSE "summarize"]
    /\ UNCHANGED <<store, qa, prevTop, nqa, reembed, nonStoreVars>>

\* create, and the UPDATE of the vector when it has 768 components, inside
\* one try whose catch logs
IngestInsert(create, update) ==
    /\ ingest.pc = "insert"
    /\ LET doc == ingest.docs[ingest.i]
           o == [ingest.o EXCEPT !.create = create, !.update = update]
           next == AfterInsert(ingest.i, Len(ingest.docs), o)
       IN  /\ store' = InsertRow(store, "A", doc.source, SummarizeCode(o),
                                 doc.pageContent, o, o.emb768)
           /\ ingest' = [ingest EXCEPT
                           !.log = Append(@, Processed(doc, o, TRUE)),
                           !.o = NoOutcome, !.i = next,
                           !.pc = IF next > Len(ingest.docs)
                                  THEN AfterLoop(ingest.path) ELSE "summarize"]
    /\ UNCHANGED <<qa, prevTop, nqa, reembed, nonStoreVars>>

\* createProject after its loop: await pullCommit(project.id) in a try whose
\* catch logs; the pull itself is the one of the pull section
IngestPull(ok) ==
    /\ ingest.pc = "pull"
    /\ ingest' = [ingest EXCEPT !.pc = "done", !.pulled = TRUE]
    /\ UNCHANGED <<store, qa, prevTop, nqa, reembed, nonStoreVars>>

(***************************************************************************)
(* getFileCount (githubLoader.ts): the recursive count of the files of a   *)
(* repository that checkCredits starts at the root path.  A call lists its *)
(* path, counts the items of type file and starts one call per item of     *)
(* type dir, all at once; it resumes when Promise.all has every result.    *)
(* The listings of the started calls settle in any order.                  *)
(***************************************************************************)
Item(type, path) == [type |-> type, path |-> path]

Paths == {"", "src", "src/app", "lib", "docs"}

\* what the hosting API lists under each path
RepoTree ==
    [p \in Paths |->
        CASE p = "" -> <<Item("file", "README.md"), Item("dir", "src"),
                         Item("file", "package.json"), Item("dir", "lib"),
                         Item("dir", "docs")>>
          [] p = "src" -> <<Item("file", "src/index.ts"), Item("dir", "src/app"),
                            Item("symlink", "src/latest")>>
          [] p = "src/app" -> <<Item("file", "src/app/page.tsx"),
                                Item("file", "src/app/layout.tsx")>>
          [] p = "lib" -> <<Item("file", "lib/a.ts"), Item("file", "lib/b.ts"),
                            Item("file", "lib/c.ts")>>
          [] OTHER -> <<Item("file", "docs/guide.md"),
                        Item("submodule", "docs/theme")>>]

FlatTree ==
    [p \in Paths |->
        IF p = "" THEN <<Item("file", "README.md"), Item("file", "index.js")>>
        ELSE <<>>]

RepoTrees == {RepoTree, FlatTree}

RECURSIVE CountType(_, _)
CountType(data, type) ==
    IF data = <<>> THEN 0
    ELSE (IF data[1].type = type THEN 1 ELSE 0) + CountType(Tail(data), type)

RECURSIVE Directories(_)
Directories(data) ==
    IF data = <<>> THEN <<>>
    ELSE (IF data[1].type = "dir" THEN <<data[1].path>> ELSE <<>>)
            \o Directories(Tail(data))

RECURSIVE Reduce(_)
Reduce(counts) == IF counts = <<>> THEN 0 ELSE counts[1] + Reduce(Tail(counts))

FcIdle ==
    [pc |-> "idle", accumulator |-> 0, fileCount |-> 0, directories |-> <<>>,
     listed |-> FALSE, threw |-> FALSE, result |-> 0]

\* the catch of getFileCount, and the same without it
OnErrorRethrow(call) == [call EXCEPT !.pc = "done", !.threw = TRUE]

OnError(call) == [call EXCEPT !.pc = "done", !.result = call.accumulator]

\* checkCredits starts the count at the root
GetFileCountStart ==
    /\ fc.pc = "idle"
    /\ fc' = [fc EXCEPT !.pc = "counting",
                        !.calls[""] = [FcIdle EXCEPT !.pc = "listing"]]
    /\ UNCHANGED nonCountVars

\* the listing of one path settles
GetContent(path, ok) ==
    /\ fc.pc = "counting"
    /\ fc.calls[path].pc = "listing"
    /\ LET call == fc.calls[path]
           data == fc.tree[path]
           dirs == Directories(data)
           listedCall == [call EXCEPT !.listed = TRUE,
                                      !.fileCount = CountType(data, "file"),
                                      !.directories = dirs]
       IN  fc' = [fc EXCEPT
                    !.order = @ \o <<path>>,
                    !.calls =
                        IF ~ok THEN [@ EXCEPT ![path] = OnError(call)]
                        ELSE IF dirs = <<>>
                        THEN [@ EXCEPT ![path] =
                                [listedCall EXCEPT
                                    !.pc = "done",
                                    !.result = call.accumulator + listedCall.fileCount]]
                        ELSE [q \in Paths |->
                                IF q = path THEN [listedCall EXCEPT !.pc = "waiting"]
                                ELSE IF \E k \in 1..Len(dirs) : dirs[k] = q
                                THEN [FcIdle EXCEPT !.pc = "listing"]
                                ELSE @[q]]]
    /\ UNCHANGED nonCountVars

\* Promise.all of the calls a path started: fulfilled when all of them are,
\* rejected as soon as one of them is
PromiseAll(path) ==
    /\ fc.pc = "counting"
    /\ fc.calls[path].pc = "waiting"
    /\ LET call == fc.calls[path]
           dirs == call.directories
           rejected == \E k \in 1..Len(dirs) :
                          fc.calls[dirs[k]].pc = "done" /\ fc.calls[dirs[k]].threw
           directoryFileCounts == [k \in 1..Len(dirs) |-> fc.calls[dirs[k]].result]
       IN  /\ rejected \/ \A k \in 1..Len(dirs) : fc.calls[dirs[k]].pc = "done"
           /\ fc' = [fc EXCEPT !.calls[path] =
                        IF rejected THEN OnError(call)
                        ELSE [call EXCEPT
                                !.pc = "done",
                                !.result = call.accumulator + call.fileCount
                                            + Reduce(directoryFileCounts)]]
    /\ UNCHANGED nonCountVars

\* checkCredits has the total
GetFileCountReturn ==
    /\ fc.pc = "counting"
    /\ fc.calls[""].pc = "done"
    /\ fc' = [fc EXCEPT !.pc = "done", !.totalFiles = fc.calls[""].result,
                        !.threw = fc.calls[""].threw]
    /\ UNCHANGED nonCountVars

CountIdle(tree) ==
    [pc |-> "idle", tree |-> tree, calls |-> [p \in Paths |-> FcIdle],
     order |-> <<>>, totalFiles |-> 0, threw |-> FALSE]

CountLive == fc \in {CountIdle(tree) : tree \in RepoTrees}
CountOff == fc = [CountIdle(FlatTree) EXCEPT !.pc = "off"]

(***************************************************************************)
(* POST /api/projects/join: one user asks to join one project.  Each await *)
(* of the handler is a step; requests in different slots interleave at     *)
(* the awaits.                                                             *)
(***************************************************************************)
JoinUser == "user_1"
JoinProject == "project_1"

Membership(userId, projectId) == [userId |-> userId, projectId |-> projectId]

\* db.userToProject.create: the table takes the row; the relational store
\* holds no uniqueness constraint other than the one on the commit hash
InsertMembership(rows, row) == Append(rows, row)

ExistingMembership(rows, userId, projectId) ==
    \E k \in 1..Len(rows) : rows[k] = Membership(userId, projectId)

JIdle == [pc |-> "idle", status |-> 0, message |-> "none"]

JoinResponse(status, message) == [pc |-> "done", status |-> status, message |-> message]

\* auth() and the body of the request
JoinStart(p, session, hasProjectId) ==
    /\ join[p].pc \in {"idle", "done"}
    /\ njoins < MaxJoins
    /\ njoins' = njoins + 1
    /\ join' = [join EXCEPT ![p] =
                    IF session = "throw" THEN JoinResponse(500, "Failed to join project")
                    ELSE IF session = "none" THEN JoinResponse(401, "Unauthorized")
                    ELSE IF ~hasProjectId THEN JoinResponse(400, "Project ID is required")
                    ELSE [JIdle EXCEPT !.pc = "project"]]
    /\ UNCHANGED <<members, nonJoinVars>>

\* db.project.findUnique
JoinFindProject(p, dbOk, found) ==
    /\ join[p].pc = "project"
    /\ join' = [join EXCEPT ![p] =
                    IF ~dbOk THEN JoinResponse(500, "Failed to join project")
                    ELSE IF ~found THEN JoinResponse(404, "Project not found")
                    ELSE [JIdle EXCEPT !.pc = "membership"]]
    /\ UNCHANGED <<members, njoins, nonJoinVars>>

\* db.userToProject.findFirst
JoinFindMembership(p, dbOk) ==
    /\ join[p].pc = "membership"
    /\ join' = [join EXCEPT ![p] =
                    IF ~dbOk THEN JoinResponse(500, "Failed to join project")
                    ELSE IF ExistingMembership(members, JoinUser, JoinProject)
                    THEN JoinResponse(200, "You are already a member of this project")
                    ELSE [JIdle EXCEPT !.pc = "create"]]
    /\ UNCHANGED <<members, njoins, nonJoinVars>>

\* db.userToProject.create
JoinCreate(p, dbOk) ==
    /\ join[p].pc = "create"
    /\ members' = IF dbOk THEN InsertMembership(members, Membership(JoinUser, JoinProject))
                  ELSE members
    /\ join' = [join EXCEPT ![p] =
                    IF dbOk THEN JoinResponse(200, "Successfully joined the project")
                    ELSE JoinResponse(500, "Failed to join project")]
    /\ UNCHANGED <<njoins, nonJoinVars>>

JoinLive ==
    /\ members = <<>>
    /\ join = [p \in Procs |-> JIdle]
    /\ njoins = 0

JoinOff ==
    /\ members = <<>>
    /\ join = [p \in Procs |-> JIdle]
    /\ njoins = MaxJoins

ReembedLive == reembed = RIdle /\ ingest = IOff
ReembedOff == reembed = [RIdle EXCEPT !.pc = "off"] /\ ingest = IOff
IngestLive ==
    /\ ingest \in {IIdle("createProject"), IIdle("indexGitHubRepo")}
    /\ reembed = [RIdle EXCEPT !.pc = "off"]

PullLive ==
    /\ commitTable = {}
    /\ repo \in [PullProjects -> RepoLists]
    /\ pull = [p \in Procs |-> PIdle("none", "none", {}, FALSE, {}, 0)]
    /\ lastPull = NoPull
    /\ npulls = 0

PullOff ==
    /\ commitTable = {}
    /\ repo = [pr \in PullProjects |-> <<>>]
    /\ pull = [p \in Procs |-> PIdle("none", "none", {}, FALSE, {}, 0)]
    /\ lastPull = NoPull
    /\ npulls = MaxPulls

CreditLive ==
    /\ credits \in InitCredits
    /\ credits0 = credits
    /\ ledger = <<>>
    /\ projects = 0
    /\ cproc = [p \in Procs |-> CIdle("none")]
    /\ nops = 0
    /\ lastCall = NoCall

CreditOff ==
    /\ credits = 0
    /\ credits0 = 0
    /\ ledger = <<>>
    /\ projects = 0
    /\ cproc = [p \in Procs |-> CIdle("none")]
    /\ nops = MaxCreditOps
    /\ lastCall = NoCall

CreditInit == CreditLive /\ PullOff /\ EmbedOff /\ QaOff /\ ReembedOff /\ CountOff /\ JoinOff

WebhookNext ==
    \E dbOk \in BOOLEAN :
        \/ \E e \in Events : WebhookRead(1, e, dbOk)
        \/ WebhookTx(1, dbOk)

CreditNext ==
    \E p \in Procs, dbOk \in BOOLEAN :
        \/ \E a \in DeductAmounts : DeductCheck(p, a, dbOk)
        \/ DeductUpdate(p, dbOk)
        \/ \E n \in TotalFiles, listingOk \in BOOLEAN : CreateCheck(p, n, listingOk, dbOk, FALSE)
        \/ CreateProjectRow(p, dbOk, FALSE)
        \/ CreateDeduct(p, dbOk, FALSE)
        \/ CreateLedger(p, dbOk, FALSE)
        \/ CheckCreditsProc(p, dbOk, FALSE)
        \/ \E e \in Events : WebhookRead(p, e, dbOk)
        \/ WebhookTx(p, dbOk)
        \/ \E t \in UpdateTargets : UpdateRead(p, t, dbOk)
        \/ UpdateSet(p, dbOk)
        \/ UpdateLedger(p, dbOk)

DeductNext ==
    \E p \in Procs, dbOk \in BOOLEAN :
        \/ \E a \in DeductAmounts : DeductCheck(p, a, dbOk)
        \/ DeductUpdate(p, dbOk)
        \/ \E n \in TotalFiles, listingOk \in BOOLEAN : CreateCheck(p, n, listingOk, dbOk, FALSE)
        \/ CreateProjectRow(p, dbOk, FALSE)
        \/ CreateDeduct(p, dbOk, FALSE)
        \/ CreateLedger(p, dbOk, FALSE)

\* one slot takes webhook deliveries while the other deducts
PurchaseNext ==
    \E dbOk \in BOOLEAN :
        \/ \E e \in Events : WebhookRead(1, e, dbOk)
        \/ WebhookTx(1, dbOk)
        \/ \E a \in DeductAmounts : DeductCheck(2, a, dbOk)
        \/ DeductUpdate(2, dbOk)
        \/ \E n \in TotalFiles, listingOk \in BOOLEAN : CreateCheck(2, n, listingOk, dbOk, FALSE)
        \/ CreateProjectRow(2, dbOk, FALSE)
        \/ CreateDeduct(2, dbOk, FALSE)
        \/ CreateLedger(2, dbOk, FALSE)

\* one checkout of the credits of event e1: deliveries of its webhook event
\* and the billing page's call after the redirect, in any order; the page
\* holds no credits in the user's public metadata, or the balance from
\* before the purchase
CheckoutNext ==
    \E p \in Procs, dbOk \in BOOLEAN :
        \/ WebhookRead(p, "e1", dbOk)
        \/ WebhookTx(p, dbOk)
        \/ \E inSync \in BOOLEAN :
              UpdateRead(p, RedirectTarget(IF inSync THEN credits0 ELSE 0, "e1"), dbOk)
        \/ UpdateSet(p, dbOk)
        \/ UpdateLedger(p, dbOk)

\* createProject calls, one after the other
CreateNext ==
    \E dbOk \in BOOLEAN :
        \/ \E n \in TotalFiles, listingOk \in BOOLEAN : CreateCheck(1, n, listingOk, dbOk, TRUE)
        \/ CreateProjectRow(1, dbOk, TRUE)
        \/ CreateDeduct(1, dbOk, TRUE)
        \/ CreateLedger(1, dbOk, TRUE)

\* deductCredits and createProject only, any interleaving
SpecDeduct == CreditInit /\ [][DeductNext]_vars

\* every credit request, any interleaving of the request slots
SpecCredit == CreditInit /\ [][CreditNext]_vars

SpecPurchase == CreditInit /\ [][PurchaseNext]_vars
SpecCheckout == CreditInit /\ [][CheckoutNext]_vars
SpecCreate == CreditInit /\ [][CreateNext]_vars

\* webhook deliveries only, one after the other
SpecWebhook == CreditInit /\ [][WebhookNext]_vars

PullInit == PullLive /\ CreditOff /\ EmbedOff /\ QaOff /\ ReembedOff /\ CountOff /\ JoinOff

PullSteps(p, track) ==
    \/ \E pr \in PullProjects, projOk \in BOOLEAN, apiOk \in BOOLEAN :
            PullStart(p, pr, projOk, apiOk, track)
    \/ \E dbOk \in BOOLEAN : PullFilter(p, dbOk)
    \/ \E d \in DiffOutcomes : PullFetchDiff(p, d)
    \/ \E outcomes \in [1..MaxRetries -> ModelOutcomes], text \in AiTexts :
            PullModel(p, outcomes, text)
    \/ \E dbOk \in BOOLEAN : PullUpsert(p, dbOk)
    \/ \E dbOk \in BOOLEAN : PullRead(p, dbOk, track)

PullNext == \E p \in Procs : PullSteps(p, FALSE)

PullSeqNext == PullSteps(1, TRUE)

\* pullCommit calls that may overlap, any interleaving
SpecPull == PullInit /\ [][PullNext]_vars

\* pullCommit calls that overlap and are not cut short by a failure before
\* their upserts: the project and the commit list are found, the filter
\* query and the final read succeed, no diff fetch is rate limited
PullPairNext ==
    \E p \in Procs :
        \/ \E pr \in PullProjects : PullStart(p, pr, TRUE, TRUE, FALSE)
        \/ PullFilter(p, TRUE)
        \/ \E d \in {"ok", "403", "neterr"} : PullFetchDiff(p, d)
        \/ \E text \in AiTexts : PullModel(p, [k \in 1..MaxRetries |-> "ok"], text)
        \/ \E dbOk \in BOOLEAN : PullUpsert(p, dbOk)
        \/ PullRead(p, TRUE, FALSE)

SpecPullPair == PullInit /\ [][PullPairNext]_vars

\* pullCommit calls one after the other
SpecPullSeq == PullInit /\ [][PullSeqNext]_vars

EmbedInit == EmbedLive /\ CreditOff /\ PullOff /\ QaOff /\ ReembedOff /\ CountOff /\ JoinOff

EmbedNext ==
    \E i \in EmbCalls :
        \/ \E site \in EmbedSites, text \in EmbedTexts : EmbedStart(i, site, text)
        \/ \E outcome \in EmbedOutcomes, rnd \in RandomSeeds :
              EmbedAttempt(i, outcome, rnd, FALSE)

SpecEmbed == EmbedInit /\ [][EmbedNext]_vars

\* the AI client: one invocation of generateEmbedding, or one of
\* summarizeCommit, followed call by call
SummarizeInit == SummarizeLive /\ CreditOff /\ PullOff /\ QaOff /\ ReembedOff /\ CountOff /\ JoinOff

ClientInit == EmbedInit \/ SummarizeInit

ClientNext ==
    \/ \E site \in EmbedSites, text \in EmbedTexts : EmbedStart(1, site, text)
    \/ \E outcome \in EmbedOutcomes, rnd \in RandomSeeds :
          EmbedAttempt(1, outcome, rnd, TRUE)
    \/ \E outcomes \in [1..MaxRetries -> ModelOutcomes], text \in AiTexts :
          SummarizeCommitCall(outcomes, text)

SpecClient == ClientInit /\ [][ClientNext]_vars

QaInit == QaLive /\ CreditOff /\ PullOff /\ EmbedOff /\ ReembedOff /\ CountOff /\ JoinOff

AnswerNext ==
    \/ \E entry \in QaEntries, question \in Questions, proj \in QaProjects,
          semantic \in BOOLEAN :
          QaStart(entry, question, proj, semantic, FALSE)
    \/ \E dbOk \in BOOLEAN : QaFetch(dbOk) \/ QaRefetch(dbOk) \/ QaAnyFetch(dbOk)
    \/ \E questionEmbedding \in QuestionVectors : QaEmbed(questionEmbedding)
    \/ \E outcome \in GenOutcomes, text \in ModelAnswers : QaGenerate(outcome, text)

KeywordNext ==
    \/ \E question \in Questions, proj \in QaProjects :
          QaStart("qaRoute", question, proj, FALSE, TRUE)
    \/ \E dbOk \in BOOLEAN : QaFetch(dbOk)
    \/ \E outcome \in GenOutcomes, text \in ModelAnswers : QaGenerate(outcome, text)

SemanticNext ==
    \/ \E question \in Questions, proj \in QaProjects :
          QaStart("qaRoute", question, proj, TRUE, FALSE)
    \/ \E dbOk \in BOOLEAN : QaFetch(dbOk)
    \/ \E questionEmbedding \in QuestionVectors : QaEmbed(questionEmbedding)
    \/ \E outcome \in GenOutcomes, text \in ModelAnswers : QaGenerate(outcome, text)

SpecAnswer == QaInit /\ [][AnswerNext]_vars
SpecKeyword == QaInit /\ [][KeywordNext]_vars
SpecSemantic == QaInit /\ [][SemanticNext]_vars

ReembedInit ==
    /\ ReembedLive /\ QaRequestsOff /\ CreditOff /\ PullOff /\ EmbedOff
    /\ CountOff /\ JoinOff
    /\ store \in {StoreOf(n, 0) : n \in {0, 1}}

ReembedNext ==
    \/ \E req \in {"get", "noid", "ok"}, session \in {"ok", "none", "throw"} :
          ReembedStart(req, session)
    \/ \E dbOk, found, hasUrl \in BOOLEAN : ReembedLookup(dbOk, found, hasUrl)
    \/ \E main \in {LoadFailed, Loaded(RepoDocs)},
          master \in {LoadFailed, Loaded(<<PackageJson>>)},
          outcomes \in [1..Len(RepoDocs) -> DocOutcomes] :
          ReembedIndex(main, master, outcomes)

SpecReembed == ReembedInit /\ [][ReembedNext]_vars

\* re-embed requests of one client, one after the other
RerunNext == ReembedNext \/ ReembedAgain

SpecRerun == ReembedInit /\ [][RerunNext]_vars

IngestInit ==
    /\ IngestLive /\ QaRequestsOff /\ CreditOff /\ PullOff /\ EmbedOff
    /\ CountOff /\ JoinOff
    /\ store \in {StoreOf(n, 0) : n \in {0, 1}}

IngestNext ==
    \/ \E main \in {LoadFailed} \cup {Loaded(docs) : docs \in LoaderLists},
          master \in {LoadFailed} \cup {Loaded(docs) : docs \in MasterLists} :
          IngestLoad(main, master)
    \/ IngestCall
    \/ \E ok \in BOOLEAN : IngestReturn(ok) \/ IngestPull(ok)
    \/ \E create, update \in BOOLEAN : IngestInsert(create, update)

CountInit ==
    /\ CountLive /\ JoinOff
    /\ CreditOff /\ PullOff /\ EmbedOff /\ QaOff /\ ReembedOff

CountNext ==
    \/ GetFileCountStart
    \/ \E path \in Paths, ok \in BOOLEAN : GetContent(path, ok)
    \/ \E path \in Paths : PromiseAll(path)
    \/ GetFileCountReturn

SpecCount == CountInit /\ [][CountNext]_vars

JoinInit ==
    /\ JoinLive /\ CountOff
    /\ CreditOff /\ PullOff /\ EmbedOff /\ QaOff /\ ReembedOff

JoinNext ==
    \E p \in Procs, dbOk \in BOOLEAN :
        \/ \E session \in {"ok", "none", "throw"}, hasProjectId \in BOOLEAN :
              JoinStart(p, session, hasProjectId)
        \/ \E found \in BOOLEAN : JoinFindProject(p, dbOk, found)
        \/ JoinFindMembership(p, dbOk)
        \/ JoinCreate(p, dbOk)

SpecJoin == JoinInit /\ [][JoinNext]_vars

\* both ingestion paths, one run at a time
IngestionInit == IngestInit \/ ReembedInit
IngestionNext == IngestNext \/ ReembedNext
SpecIngest == IngestionInit /\ [][IngestionNext]_vars

\* the caller-facing operations, one subsystem at a time and one request at
\* a time: createProject and checkCredits of the project router, pullCommits,
\* the answering entry points, re-embed
ApiInit == CreditInit \/ PullInit \/ QaInit \/ ReembedInit

ApiCreditNext ==
    \E dbOk \in BOOLEAN :
        \/ \E n \in TotalFiles, listingOk \in BOOLEAN : CreateCheck(1, n, listingOk, dbOk, TRUE)
        \/ CreateProjectRow(1, dbOk, TRUE)
        \/ CreateDeduct(1, dbOk, TRUE)
        \/ CreateLedger(1, dbOk, TRUE)
        \/ CheckCreditsProc(1, dbOk, TRUE)

ApiNext == ApiCreditNext \/ PullSteps(1, FALSE) \/ AnswerNext \/ ReembedNext

SpecApi == ApiInit /\ [][ApiNext]_vars

(***************************************************************************)
(* C6: every call of generateEmbedding that has returned holds a vector of *)
(* exactly 768 components, and no call ends by throwing, whatever the text *)
(* and whatever the remote API answered on each attempt.                   *)
(***************************************************************************)
C6_EmbeddingAlways768 ==
    \A i \in EmbCalls :
        emb[i].pc = "done" =>
            /\ ~emb[i].ret.threw
            /\ Len(emb[i].ret.vec.vals) = EmbeddingDim

(***************************************************************************)
(* C7: two invocations for the same text whose remote call failed on every *)
(* attempt hold identical 768-component vectors, at whichever call sites   *)
(* they were made, and the vector is the hash-seeded one.                  *)
(***************************************************************************)
C7_FallbackDeterministic ==
    \A i, j \in EmbCalls :
        ( /\ emb[i].pc = "done" /\ emb[i].exhausted
          /\ emb[j].pc = "done" /\ emb[j].exhausted
          /\ emb[i].text = emb[j].text ) =>
            /\ ~emb[i].held.threw
            /\ emb[i].held = emb[j].held
            /\ emb[i].held.vec.kind = "hash"
            /\ Len(emb[i].held.vec.vals) = EmbeddingDim

C7_Witness ==
    /\ emb[1].pc = "done" /\ emb[1].exhausted /\ emb[1].site = "createProject"
    /\ emb[2].pc = "done" /\ emb[2].exhausted /\ emb[2].site = "qaRoute"
    /\ emb[1].text = emb[2].text
    /\ emb[1].text = <<122, 122, 122, 122, 122, 122>>

(***************************************************************************)
(* C8: whenever an answering entry point (POST /api/qa, the simple route,  *)
(* getRagAnswer) has finished a request whose generative call failed on    *)
(* all of its attempts, the caller holds a response (nothing was thrown)   *)
(* whose answer contains a readable sentence.                              *)
(***************************************************************************)
C8_AnswerOnGenerationFailure ==
    (qa.pc = "done" /\ qa.cause = "generation") =>
        /\ ~qa.resp.threw
        /\ Displayable(qa.resp.answer)

C8_Witness ==
    /\ qa.pc = "done" /\ qa.cause = "generation"
    /\ qa.entry = "simpleRoute"
    /\ qa.resp.status = 200
    /\ nqa = 2

(***************************************************************************)
(* C10: in keyword mode the selected list holds at most 5 of the fetched   *)
(* files, in descending score order with equal scores in fetch order, no   *)
(* unselected fetched file ranks before a selected one, and a request for  *)
(* the same project and question as the request before it selects the same *)
(* list.                                                                   *)
(***************************************************************************)
Selected ==
    /\ qa.entry = "qaRoute" /\ ~qa.semantic
    /\ qa.pc \in {"generate", "done"} /\ qa.files # <<>>

\* file a comes before file b: higher score, or equal score and fetched first
\* (rows are fetched in row order, and a row's id is its position)
RanksBefore(a, b, question) ==
    \/ KeywordScore(store[a], question) > KeywordScore(store[b], question)
    \/ /\ KeywordScore(store[a], question) = KeywordScore(store[b], question)
       /\ a < b

OnlyMatch(f) ==
    /\ store[f].projectId = qa.proj
    /\ KeywordScore(store[f], qa.question) > 0
    /\ \A g \in 1..Len(store) :
          (g # f /\ store[g].projectId = qa.proj) =>
              KeywordScore(store[g], qa.question) = 0

C11_SingleMatchIsFirst ==
    \A f \in 1..Len(store) :
        ( /\ qa.entry = "qaRoute" /\ ~qa.semantic
          /\ qa.pc \in {"generate", "done"} /\ qa.cause # "store" /\ qa.question # <<>>
          /\ OnlyMatch(f) ) =>
            (qa.files # <<>> /\ qa.files[1] = f)

(***************************************************************************)
(* C12: in semantic mode, once the question vector has arrived, a row of   *)
(* the project whose vector is missing or of another length than the       *)
(* question vector is selected only behind every row of the project whose  *)
(* vector is valid: when such a row is in the list, every valid row is in  *)
(* the list too, at an earlier position.                                   *)
(***************************************************************************)
Ranked == qa.entry = "qaRoute" /\ qa.semantic /\ qa.pc \in {"generate", "done"}

InvalidVector(f) ==
    store[f].embedding.null \/ store[f].embedding.len # qa.qvec.len

PositionOf(f) == CHOOSE k \in 1..Len(qa.files) : qa.files[k] = f

InTop(f) == \E k \in 1..Len(qa.files) : qa.files[k] = f

C12_InvalidVectorsRankedLast ==
    Ranked =>
        \A i, v \in 1..Len(store) :
            ( /\ store[i].projectId = qa.proj /\ store[v].projectId = qa.proj
              /\ InvalidVector(i) /\ ~InvalidVector(v)
              /\ InTop(i) ) =>
                (InTop(v) /\ PositionOf(v) < PositionOf(i))

(***************************************************************************)
(* C13: the background task of createProject processes the loaded files in *)
(* priority order, README-like names first, then package.json-like names,  *)
(* then files under a src directory, then the rest, whatever order the     *)
(* loader gave; README.md, package.json, src/index.ts are processed in     *)
(* exactly that order.                                                     *)
(***************************************************************************)
UnderSourceDirectory(fileName) ==
    \/ Take(fileName, 4) = <<"s", "r", "c", "/">>
    \/ Includes(fileName, <<"/", "s", "r", "c", "/">>)

PriorityClass(fileName) ==
    IF Includes(ToLowerCase(fileName), <<"r", "e", "a", "d", "m", "e">>) THEN 1
    ELSE IF Includes(fileName, <<"p", "a", "c", "k", "a", "g", "e", ".", "j", "s", "o", "n">>) THEN 2
    ELSE IF UnderSourceDirectory(fileName) THEN 3
    ELSE 4

ProcessedNames == [k \in 1..Len(ingest.log) |-> ingest.log[k].fileName]

C13_ProcessedInPriorityOrder ==
    ingest.path = "createProject" =>
    /\ \A j, k \in 1..Len(ingest.log) :
          j < k => PriorityClass(ProcessedNames[j]) <= PriorityClass(ProcessedNames[k])
    /\ ( /\ ingest.pc = "done"
         /\ {ingest.load.docs[k] : k \in 1..Len(ingest.load.docs)}
                = {ReadmeMd, PackageJson, SrcIndexTs} ) =>
            ProcessedNames = <<ReadmeMd.source, PackageJson.source, SrcIndexTs.source>>

(***************************************************************************)
(* C14: the credit cost createProject works with equals the number of      *)
(* files counted in the tree of the repository, one credit per file.       *)
(***************************************************************************)
C14_CostEqualsFileCount ==
    \A p \in Procs :
        ( /\ cproc[p].pc \in {"c_create", "c_deduct", "c_ledger"}
          /\ cproc[p].counted ) =>
            cproc[p].amt = cproc[p].files

(***************************************************************************)
(* C15: every return of loadGitHubRepository is a return, never a raise;   *)
(* branch main is loaded first and its documents are the result when that  *)
(* load succeeds; otherwise branch master is loaded and its documents are  *)
(* the result when that succeeds; otherwise the result is exactly the one  *)
(* sample README document.                                                 *)
(***************************************************************************)
C15_BranchFallback ==
    ingest.load # NoLoad =>
        /\ ~ingest.load.threw
        /\ ingest.load.attempts[1] = "main"
        /\ ingest.main.ok =>
              (ingest.load.docs = ingest.main.docs /\ ingest.load.attempts = <<"main">>)
        /\ (~ingest.main.ok /\ ingest.master.ok) =>
              /\ ingest.load.docs = ingest.master.docs
              /\ ingest.load.attempts = <<"main", "master">>
        /\ (~ingest.main.ok /\ ~ingest.master.ok) =>
              /\ ingest.load.docs = <<PlaceholderReadme>>
              /\ ingest.load.attempts = <<"main", "master">>

C15_Witness ==
    /\ ingest.pc = "summarize"
    /\ ~ingest.main.ok /\ ingest.master.ok
    /\ ingest.load.docs = ingest.master.docs

(***************************************************************************)
(* C16: an invocation of generateEmbedding or of summarizeCommit calls the *)
(* remote API at most 3 times, waits 2 s after its first failed call and   *)
(* 4 s after its second, and ends by returning, never by raising: the      *)
(* result of its first successful call, or its fixed fallback once the     *)
(* third call has failed.                                                  *)
(***************************************************************************)
BackoffWaits == <<2000, 4000>>

FirstOk(outcomes) ==
    CHOOSE k \in 1..Len(outcomes) :
        outcomes[k] = "ok" /\ \A j \in 1..(k - 1) : outcomes[j] # "ok"

C16_EmbeddingReturns ==
    \A i \in EmbCalls :
        emb[i].followed =>
            /\ emb[i].calls <= 3
            /\ emb[i].pc = "embedding" =>
                  (emb[i].calls < 3 /\ emb[i].delays = Take(BackoffWaits, emb[i].calls))
            /\ emb[i].pc = "done" =>
                  /\ ~emb[i].gemini.threw
                  /\ emb[i].delays = Take(BackoffWaits, emb[i].calls - 1)
                  /\ IF emb[i].last \in {"fail", "empty"}
                     THEN /\ emb[i].calls = 3
                          /\ emb[i].gemini.vec = FallbackEmbedding(emb[i].text)
                     ELSE /\ emb[i].gemini.vec.kind = "api"
                          /\ emb[i].gemini.vec.vals = ApiValues(emb[i].last)

C16_SummaryReturns ==
    sum.pc = "done" =>
        /\ sum.r.calls <= 3
        /\ ~sum.r.threw
        /\ sum.r.delays = Take(BackoffWaits, sum.r.calls - 1)
        /\ IF \E k \in 1..Len(sum.outcomes) : sum.outcomes[k] = "ok"
           THEN sum.r.calls = FirstOk(sum.outcomes) /\ sum.r.result = sum.text
           ELSE sum.r.calls = 3 /\ sum.r.result = FallbackSummary

C16_BoundedRetriesAlwaysReturn == C16_EmbeddingReturns /\ C16_SummaryReturns

C16_Witness ==
    /\ emb[1].pc = "done" /\ emb[1].followed
    /\ emb[1].calls = 3 /\ emb[1].last = "empty"
    /\ emb[1].delays = BackoffWaits
    /\ emb[1].gemini.vec = FallbackEmbedding(emb[1].text)

(***************************************************************************)
(* C17: when aiSummarizeCommit gives up on the diff of a commit after a    *)
(* failure other than 403 or 404 (rate limiting, a network error), it has  *)
(* made 3 fetch attempts.                                                  *)
(***************************************************************************)
GaveUp(p) ==
    /\ pull[p].pc = "upsert"
    /\ pull[p].lastDiff \in {"429", "neterr"}

C17_TransientFetchRetriedThrice ==
    \A p \in Procs : GaveUp(p) => pull[p].fetches = MaxRetries

(***************************************************************************)
(* C18: a diff fetch answered 403 or 404 is the last fetch for its commit, *)
(* and the summary handed to the upsert of the commit is the canned text   *)
(* of that status; the row the upsert writes carries it.                   *)
(***************************************************************************)
CannedFor(d) == IF d = "403" THEN Canned403 ELSE Canned404

NoFetchAfterCanned ==
    \A p \in Procs :
        pull[p].lastDiff \in {"403", "404"} =>
            /\ pull[p].pc = "upsert"
            /\ pull[p].summary = CannedFor(pull[p].lastDiff)

\* the step that leaves the upsert without failing has stored the canned text
CannedIsStored ==
    \A p \in Procs :
        ( /\ pull[p].lastDiff \in {"403", "404"}
          /\ pull'[p] # pull[p]
          /\ pull'[p].res # "threw" ) =>
            \E r \in commitTable' :
                /\ r.commitHash = Head(pull[p].todo)
                /\ r.summary = CannedFor(pull[p].lastDiff)

C18_ForbiddenOrMissingIsCanned == []NoFetchAfterCanned /\ [][CannedIsStored]_vars

C18_Witness == \E r \in commitTable : r.summary = Canned403

(***************************************************************************)
(* C19: in both ingestion paths, a file whose vector has not 768           *)
(* components and whose create the store accepts leaves a row with its     *)
(* name, summary and source text and with no vector.                       *)
(***************************************************************************)
HasRow(base, f) ==
    \E r \in (base + 1)..Len(store) :
        /\ store[r].projectId = "A"
        /\ store[r].fileName = f.fileName
        /\ store[r].summary = f.summary
        /\ store[r].sourceCode = f.sourceCode

HasTextRow(base, f) ==
    \E r \in (base + 1)..Len(store) :
        /\ store[r].projectId = "A"
        /\ store[r].fileName = f.fileName
        /\ store[r].summary = f.summary
        /\ store[r].sourceCode = f.sourceCode
        /\ store[r].embedding = NoVector

TextStored(base, log) ==
    \A k \in 1..Len(log) :
        (~log[k].emb768 /\ log[k].create # "failed") => HasTextRow(base, log[k])

C19_TextStoredWithoutVector ==
    /\ TextStored(ingest.base, ingest.log)
    /\ TextStored(reembed.base, reembed.log)

(***************************************************************************)
(* C20: a failed insert stops neither ingestion path: when the run is      *)
(* over, every loaded file has been processed, and every file whose insert *)
(* was made and succeeded has its row.                                     *)
(***************************************************************************)
C20_InsertFailureIsolated ==
    /\ (ingest.pc = "done" /\ ingest.docs # <<>>) =>
          /\ Len(ingest.log) = Len(ingest.load.docs)
          /\ \A k \in 1..Len(ingest.log) :
                ingest.log[k].create = "ok" => HasRow(ingest.base, ingest.log[k])
    /\ \A k \in 1..Len(reembed.log) :
          reembed.log[k].create = "ok" => HasRow(reembed.base, reembed.log[k])

C20_Witness ==
    /\ ingest.pc = "done"
    /\ \E j, k \in 1..Len(ingest.log) :
          /\ j < k
          /\ ingest.log[j].create = "failed"
          /\ ingest.log[k].create = "ok"
          /\ HasRow(ingest.base, ingest.log[k])

(***************************************************************************)
(* C21: within one ingestion run at most one remote AI call is in flight,  *)
(* it belongs to the file the loop is at, and every earlier file has been  *)
(* dealt with (summarized, embedded, inserted or passed over) before it    *)
(* started.                                                                *)
(***************************************************************************)
C21_OneFileAtATime ==
    /\ Cardinality(ingest.flight) <= 1
    /\ \A c \in ingest.flight :
          /\ c.file = ingest.i
          /\ Len(ingest.log) = c.file - 1

C21_Witness ==
    /\ ingest.flight = {[file |-> 2, call |-> "summarize"]}
    /\ Len(ingest.log) = 1

(***************************************************************************)
(* C22: when getFileCount has returned to checkCredits, it has not raised   *)
(* and its result is the number of items of type file in the listings that *)
(* succeeded, whatever the order in which the listings settled; a path     *)
(* whose listing failed adds nothing, and its siblings still count.        *)
(***************************************************************************)
RECURSIVE ListedFiles(_)
ListedFiles(S) ==
    IF S = {} THEN 0
    ELSE LET p == CHOOSE q \in S : TRUE
         IN  (IF fc.calls[p].listed THEN CountType(fc.tree[p], "file") ELSE 0)
                + ListedFiles(S \ {p})

C22_CountsListedDirectories ==
    fc.pc = "done" =>
        /\ ~fc.threw
        /\ \A p \in Paths : ~fc.calls[p].threw
        /\ fc.totalFiles = ListedFiles(Paths)

\* src failed after its siblings were listed, in an order other than the one
\* the calls were started in; lib and docs are still counted
C22_Witness ==
    /\ fc.pc = "done"
    /\ fc.tree = RepoTree
    /\ fc.order = <<"", "docs", "lib", "src">>
    /\ ~fc.calls["src"].listed
    /\ fc.totalFiles = CountType(RepoTree[""], "file") + CountType(RepoTree["lib"], "file")
                            + CountType(RepoTree["docs"], "file")

(***************************************************************************)
(* C23: the commit table never holds two rows with the same commit hash,   *)
(* also while pulls of one project or of projects that share commits       *)
(* overlap; and an upsert that completes leaves the row of its hash with   *)
(* the message and summary it wrote, and the rows of other hashes as they  *)
(* were.                                                                   *)
(***************************************************************************)
OnePerHash ==
    \A r1, r2 \in commitTable : r1.commitHash = r2.commitHash => r1 = r2

LastWriteWins ==
    \A p \in Procs :
        (pull[p].pc = "upsert" /\ pull'[p].work = pull[p].work + 1) =>
            LET h == Head(pull[p].todo) IN
            /\ \E r \in commitTable' :
                  /\ r.commitHash = h
                  /\ r.summary = pull[p].summary
                  /\ r.message = CommitMessage(h)
            /\ {r \in commitTable' : r.commitHash # h}
                  = {r \in commitTable : r.commitHash # h}

C23_OneRowPerHashLastWriteWins == []OnePerHash /\ [][LastWriteWins]_vars

\* two pulls in flight, one about to write a hash the table already holds
\* with another summary
C23_Witness ==
    /\ \A p \in Procs : pull[p].pc # "idle"
    /\ \E p \in Procs :
          /\ pull[p].pc = "upsert"
          /\ \E r \in commitTable :
                /\ r.commitHash = Head(pull[p].todo)
                /\ r.summary # pull[p].summary
                /\ r.projectId # pull[p].proj

(***************************************************************************)
(* C28: when pullCommit has returned for a project, every commit the       *)
(* hosting API lists for the repository of the project is in the returned  *)
(* list, also when a row of another project holds the hash of the commit.  *)
(***************************************************************************)
ListedHashes(pr) == {GetCommitHashes(pr)[i] : i \in DOMAIN GetCommitHashes(pr)}

C28_ReturnedListHoldsRepoCommits ==
    lastPull # NoPull => ListedHashes(lastPull.proj) \subseteq pull[1].ret

(***************************************************************************)
(* C24: when a re-embed request has been answered 200 after an earlier     *)
(* one was, both having loaded the same files with the same results and    *)
(* every insert made, the project holds exactly one row per loaded file.   *)
(***************************************************************************)
RowsNamed(proj, fileName) ==
    Cardinality({r \in 1..Len(store) :
                    store[r].projectId = proj /\ store[r].fileName = fileName})

C24_ReembedReplacesRows ==
    (/\ reembed.pc = "done"
     /\ reembed.resp.status = 200
     /\ reembed.run > 1
     /\ reembed.log # <<>>
     /\ reembed.before = reembed.log
     /\ \A k \in 1..Len(reembed.log) : reembed.log[k].create = "ok")
        => \A k \in 1..Len(reembed.log) : RowsNamed("A", reembed.log[k].fileName) = 1

(***************************************************************************)
(* C25: when one webhook delivery adding c credits and one deduction of d  *)
(* credits (deductCredits, or the decrement of createProject) have both    *)
(* completed, whatever the interleaving of their reads and writes, the     *)
(* balance is the balance before them + c - d.                             *)
(***************************************************************************)
BothCompleted ==
    /\ \A p \in Procs : cproc[p].pc = "idle" /\ cproc[p].res = "ok"
    /\ nops = 2

\* the checkout event of the one delivery that completed
Purchased == CHOOSE e \in Events : \E i \in DOMAIN ledger : ledger[i].src = e

C25_PurchaseAndDeductionBothCount ==
    BothCompleted =>
        credits = credits0 + EventCredits(Purchased) - cproc[2].amt

(***************************************************************************)
(* C26: when the webhook delivery of a checkout of c credits and the call  *)
(* of POST /api/update-credits the billing page makes after the redirect   *)
(* have both completed, in either order, and nothing else was requested,   *)
(* the balance is c above the balance before the checkout.                 *)
(***************************************************************************)
EntriesFrom(src) == {i \in DOMAIN ledger : ledger[i].src = src}

C26_CheckoutCreditsOnce ==
    (/\ \A p \in Procs : cproc[p].pc = "idle"
     /\ nops = 2
     /\ Cardinality(EntriesFrom("e1")) = 1
     /\ Cardinality(EntriesFrom("update")) = 1)
        => credits = credits0 + EventCredits("e1")

(***************************************************************************)
(* C27: when a call of createProject has returned or failed, either its    *)
(* project exists and the balance is lower by exactly the file count the   *)
(* call computed, or no project was created and the balance is unchanged.  *)
(***************************************************************************)
C27_CreateProjectAllOrNothing ==
    (cproc[1].pc = "idle" /\ nops = 1) =>
        \/ projects = 1 /\ credits = credits0 - cproc[1].amt
        \/ projects = 0 /\ credits = credits0

(***************************************************************************)
(* C29: when the background task of createProject has ended, it has        *)
(* called pullCommit for the project, whatever the loader returned.        *)
(***************************************************************************)
C29_BackgroundTaskPulls ==
    (ingest.path = "createProject" /\ ingest.pc = "done") => ingest.pulled

(***************************************************************************)
(* C30: when no join request is in flight and a request of the user for    *)
(* the project has been answered 200, the user has exactly one membership  *)
(* row for the project.                                                    *)
(***************************************************************************)
MembershipRows ==
    Cardinality({k \in 1..Len(members) : members[k] = Membership(JoinUser, JoinProject)})

C30_OneMembershipRow ==
    (/\ \A p \in Procs : join[p].pc \in {"idle", "done"}
     /\ \E p \in Procs : join[p].pc = "done" /\ join[p].status = 200)
        => MembershipRows = 1

(***************************************************************************)
(* C4: if pullCommit completes twice in a row for a project while the      *)
(* hosting API returns the same commit list, the second pull summarizes    *)
(* and upserts no commit and leaves the Commit table as the first left it. *)
(***************************************************************************)
C4_SecondPullChangesNothing ==
    \A p \in Procs :
        (pull[p].second /\ pull[p].pc = "idle" /\ pull[p].res = "ok") =>
            (pull[p].work = 0 /\ commitTable = pull[p].snap)


(***************************************************************************)
(* C5: a failed summarization never aborts pullCommit: the commit is       *)
(* persisted with a placeholder summary (every stored summary is a model   *)
(* text or one of the placeholder strings), and pullCommit raises only for *)
(* a failed store operation or a failed project / commit-list fetch.       *)
(***************************************************************************)
Placeholders == {FallbackSummary, Canned403, Canned404, SummaryFailed}

C5_SummaryFailureDegrades ==
    /\ \A r \in commitTable : r.summary \in AiTexts \cup Placeholders
    /\ \A p \in Procs :
          pull[p].res = "threw" =>
              pull[p].err \in {"project", "commits", "filter", "save", "read"}

CreditIdle == \A p \in Procs : cproc[p].pc = "idle"

(***************************************************************************)
(* C1: under any interleaving of deductCredits and createProject calls     *)
(* the stored balance is never negative.                                   *)
(***************************************************************************)
C1_BalanceNeverNegative == credits >= 0

(***************************************************************************)
(* C2: whenever no credit operation is in progress, the stored balance is  *)
(* the starting balance plus the sum of the deltas of the ledger entries.  *)
(***************************************************************************)
C2_BalanceMatchesLedger ==
    CreditIdle => credits = credits0 + SumDeltas(ledger)

(***************************************************************************)
(* C3: webhook crediting is idempotent: after any number of deliveries of  *)
(* checkout events, each event that was delivered is in the ledger once    *)
(* and has raised the balance once.                                        *)
(***************************************************************************)
LedgerEvents == {ledger[i].src : i \in DOMAIN ledger} \cap Events

RECURSIVE SumEvents(_)
SumEvents(S) ==
    IF S = {} THEN 0
    ELSE LET e == CHOOSE x \in S : TRUE IN EventCredits(e) + SumEvents(S \ {e})

C3_WebhookIdempotent ==
    CreditIdle =>
        /\ \A e \in Events :
              Cardinality({i \in DOMAIN ledger : ledger[i].src = e}) <= 1
        /\ credits = credits0 + SumEvents(LedgerEvents)

====
